---- MODULE Spec2Model ----
(***************************************************************************)
(* Model of the CP case-intake conversation core:                          *)
(*   CaseDataManager     (src/case_data_manager.py)   points and ranking   *)
(*   EligibilityChecker  (src/eligibility_checker.py) age / state rules    *)
(*   NLUProcessor        (src/nlu_processor.py)       oracle-or-fallback   *)
(*   ConversationManager (src/config_manager.py)      the phase machine    *)
(*   MessengerSession    (src/eligibility_checker.py) the per-sender guard *)
(*                                                                         *)
(* A message is a sequence of words (punctuation is a word of its own).    *)
(* Python's `kw in message_lower` is modelled by Has: the words of kw      *)
(* occur side by side, each inside the corresponding word of the message.  *)
(* Ages are integers in hundredths of a year (5.9 years = 590).            *)
(***************************************************************************)
EXTENDS Integers, Sequences, FiniteSets, TLC

VARIABLES
    session,      \* the MessengerSession object of the sender
    n_back,       \* number of back commands sent so far (bounded)
    last_update,  \* the last direct update_points call: [before, delta]
    probe,        \* the last direct call of a pure method: its inputs and result
    empty_run,    \* number of blank messages received in a row up to now
    active_conversations,  \* the webhook's sessions, by sender id
    inflight,     \* what each request thread of the server is doing
    n_recv        \* number of webhook events received so far (bounded)

vars == <<session, n_back, last_update, probe, empty_run, active_conversations, inflight,
          n_recv>>

\* The state of the webhook server.
hook == <<active_conversations, inflight, n_recv>>

-----------------------------------------------------------------------------
(* Bounds of the model.                                                    *)

\* Back commands sent in one session.
MaxBack == 1
\* Direct update_points calls on one case record.
MaxCalls == 4
\* Blank messages sent in a row.
MaxEmpty == 4
\* Webhook events received by the server.
MaxRecv == 5
\* Messages sent to one interview.
MaxMsgs == 10

-----------------------------------------------------------------------------
(* Python values: None, bool, number, str.  One record shape for all.      *)

NoneV == [kind |-> "none", s |-> "", n |-> 0, b |-> FALSE]
BoolV(x) == [kind |-> "bool", s |-> "", n |-> 0, b |-> x]
NumV(x) == [kind |-> "num", s |-> "", n |-> x, b |-> FALSE]
StrV(x) == [kind |-> "str", s |-> x, n |-> 0, b |-> FALSE]
\* The message itself, stored as an answer.  The program never looks inside a
\* stored message: the model keeps that a message was stored, not its words.
Stored(x) == StrV("<message>")

\* F applied to a value that is computed once (a local variable of the code).
Bind(x, F(_)) == F(x)

IsNone(v) == v.kind = "none"

\* Python truthiness of a value (`if v:` / `not v`).
Truthy(v) ==
    CASE v.kind = "none" -> FALSE
      [] v.kind = "bool" -> v.b
      [] v.kind = "num" -> v.n # 0
      [] OTHER -> v.s # ""

-----------------------------------------------------------------------------
(* Words and substring search.                                             *)

\* str.lower() on a word.
Lower(w) ==
    CASE w = "California" -> "california"
      [] w = "Ohio" -> "ohio"
      [] w = "Texas" -> "texas"
      [] w = "TX" -> "tx"
      [] w = "OK" -> "ok"
      [] w = "NICU" -> "nicu"
      [] OTHER -> w

\* The keywords that occur strictly inside a (lower-case) word.
Sub(w) ==
    CASE w = "delays" -> {"delay"}
      [] w = "weeks" -> {"week"}
      [] w = "months" -> {"month"}
      [] w = "days" -> {"day"}
      [] w = "cooling" -> {"cool"}
      [] w = "dunno" -> {"no"}
      [] w = "not" -> {"no", "ot"}
      [] OTHER -> {}

WordHas(w, k) == w = k \/ k \in Sub(w)

\* `kw in message.lower()` for a keyword given as its sequence of words.
Has(text, kw) ==
    \E i \in 1..Len(text) :
        /\ i + Len(kw) - 1 <= Len(text)
        /\ \A j \in 1..Len(kw) : WordHas(Lower(text[i + j - 1]), kw[j])

\* any(k in message_lower for k in kws)
HasAny(text, kws) == \E kw \in kws : Has(text, kw)

\* The value of a word that is a run of digits (\d+).
NumVal ==
    [w \in {"0", "2", "3", "5", "8", "14", "15", "18", "19", "22", "25", "28", "30",
            "32", "40"} |->
        CASE w = "0" -> 0 [] w = "2" -> 2 [] w = "3" -> 3 [] w = "5" -> 5
          [] w = "8" -> 8 [] w = "14" -> 14 [] w = "15" -> 15 [] w = "18" -> 18
          [] w = "19" -> 19 [] w = "22" -> 22 [] w = "25" -> 25 [] w = "28" -> 28
          [] w = "30" -> 30 [] w = "32" -> 32 [] OTHER -> 40]

IsNum(w) == w \in DOMAIN NumVal

-----------------------------------------------------------------------------
(* The messages the session is driven with.                                *)

T_Fifteen == <<"15">>
\* "28 weeks, NICU for a month, cooling therapy, some delays"
T_Scenario == <<"28", "weeks", ",", "NICU", "for", "a", "month", ",", "cooling", "therapy",
                ",", "some", "delays">>
T_FullTermMri == <<"40", "weeks", ",", "had", "an", "mri">>
T_Yes == <<"yes">>
T_No == <<"no">>
T_NoNicu == <<"no", "nicu", ",", "went", "home">>
T_NoLawyer == <<"no", "lawyer", "yet", ",", "born", "in", "California">>
T_Ohio == <<"Ohio">>
T_Back == <<"back">>
T_Help == <<"help">>
T_Blank == <<>>

\* Age answers that only the fallback patterns read.
T_Thirty == <<"30">>
T_AlmostThirty == <<"almost", "30">>
T_AlmostZero == <<"almost", "0">>
T_ThirtyHalf == <<"30", "and", "a", "half">>
T_FiveQuarter == <<"5", "and", "a", "quarter">>

AnswerTexts ==
    {T_Fifteen, T_Scenario, T_FullTermMri, T_Yes, T_No, T_NoNicu,
     T_NoLawyer, T_Ohio}

\* Messages for the implied-answer scan: a topic named alone, denied, only a
\* negative phrase, a NICU stay with its length, the compound message denied.
T_InNicu == <<"was", "in", "NICU">>
T_Stay == <<"spent", "2", "weeks", "in", "the", "nicu">>
T_WentHome == <<"went", "home">>
T_NoCooling == <<"no", "cooling">>
T_NoScan == <<"no", "scan">>
T_OnTrack == <<"on", "track">>
T_SawLawyer == <<"saw", "a", "lawyer">>
T_NotYet == <<"not", "yet">>
T_CompoundDenied == <<"28", "weeks", ",", "no", "nicu", ",", "no", "cooling">>
\* The compound message with every topic denied and a NICU stay of its own.
T_CompoundStay == <<"28", "weeks", ",", "spent", "2", "weeks", "in", "the", "nicu", ",",
                    "went", "home", "after", "a", "month", ",", "no", "cooling", ",",
                    "no", "delay">>

ScanTexts ==
    {T_InNicu, T_Stay, T_WentHome, T_NoCooling, T_NoScan, T_OnTrack, T_SawLawyer, T_NotYet,
     T_CompoundDenied, T_CompoundStay}

AgeTexts == {T_Thirty, T_AlmostThirty, T_AlmostZero, T_ThirtyHalf, T_FiveQuarter}

AllTexts == AnswerTexts \cup {T_Back, T_Help, T_Blank} \cup AgeTexts \cup ScanTexts

-----------------------------------------------------------------------------
(* The keyword lists of the interpreters and of the implied-answer scan.   *)

difficult_indicators ==
    { <<"difficult">>, <<"not", "easy">>, <<"hard">>, <<"complications">>, <<"emergency">>,
      <<"c-section">>, <<"csection">>, <<"c", "section">>, <<"cesarean">>, <<"forceps">>,
      <<"vacuum">>, <<"distress">>, <<"oxygen">>, <<"resuscitate">>, <<"nicu">>,
      <<"intensive", "care">>, <<"problem">>, <<"complication">>, <<"issue">>,
      <<"prolonged">>, <<"stuck">>, <<"trauma">>, <<"injury">>, <<"monitor">>, <<"fetal">>,
      <<"induced">>, <<"induction">>, <<"premature">>, <<"preemie">>, <<"breech">> }

\* The keyword lists shared by the yes/no parser and the implied-answer scan.
cooling_indicators ==
    { <<"cooling">>, <<"hypothermia">>, <<"hie", "therapy">>, <<"head", "cool">>,
      <<"cooling", "blanket">> }
cooling_negative ==
    { <<"no", "cooling">>, <<"didn't", "receive", "cooling">>, <<"without", "cooling">>,
      <<"no", "hypothermia">> }
scan_indicators ==
    { <<"mri">>, <<"brain", "scan">>, <<"head", "scan">>, <<"cat", "scan">>,
      <<"ct", "scan">>, <<"ultrasound">> }
scan_negative ==
    { <<"no", "scan">>, <<"didn't", "have", "scan">>, <<"no", "mri">>,
      <<"without", "scan">>, <<"no", "scans">> }

\* The list of interpret_yes_no and of _process_milestones_response.
normal_indicators_long ==
    { <<"no", "delays">>, <<"meeting", "milestones">>, <<"on", "track">>,
      <<"normal", "development">>, <<"no", "major", "delays">>,
      <<"everything", "seems", "normal">>, <<"developing", "normally">>,
      <<"no", "issues">>, <<"no", "problems">>, <<"no", "concerns">>, <<"normal">>,
      <<"typical">> }

positive_phrases ==
    { <<"i", "do">>, <<"we", "did">>, <<"that", "is", "right">>, <<"that", "is", "correct">>,
      <<"that's", "right">>, <<"that's", "correct">>, <<"had", "to">>, <<"did", "have">>,
      <<"we", "had">>, <<"they", "did">>, <<"doctor">>, <<"received">>, <<"cooling">>,
      <<"blanket">>, <<"mri">>, <<"brain", "scan">>, <<"scan">>, <<"behind">>,
      <<"delayed">>, <<"delay">>, <<"missing">>, <<"not", "meeting">>, <<"therapy">>,
      <<"treatment">>, <<"cool">>, <<"attorney">>, <<"spoke">>, <<"spoken">> }

uncertainty_phrases ==
    { <<"i", "think">>, <<"maybe">>, <<"possibly">>, <<"probably">>, <<"might", "have">>,
      <<"could", "have">>, <<"not", "sure">> }

negative_indicators ==
    { <<"no">>, <<"not">>, <<"never">>, <<"don't">>, <<"didn't">>, <<"doesn't">>,
      <<"don't", "think">> }

\* The lists of the implied-answer scan.
nicu_indicators == { <<"nicu">>, <<"intensive", "care">>, <<"incubator">>, <<"special", "care">> }
nicu_negative ==
    { <<"didn't", "go">>, <<"did", "not", "go">>, <<"no", "nicu">>, <<"wasn't", "in">>,
      <<"never", "went">>, <<"avoided">>, <<"no", "need">>, <<"went", "home">>,
      <<"straight", "home">> }
delay_indicators ==
    { <<"delay">>, <<"behind">>, <<"missing", "milestone">>, <<"developmental">>,
      <<"not", "meeting">>, <<"therapy">>, <<"pt">>, <<"ot">>, <<"speech">>,
      <<"physical", "therapy">> }
normal_indicators ==
    { <<"no", "delay">>, <<"on", "track">>, <<"normal", "development">>,
      <<"meeting", "milestone">>, <<"developing", "normally">>, <<"no", "major", "delays">>,
      <<"everything", "seems", "normal">> }
lawyer_indicators ==
    { <<"lawyer">>, <<"attorney">>, <<"legal">>, <<"law", "firm">>, <<"lawsuit">>,
      <<"case", "review">>, <<"litigation">> }
lawyer_negative ==
    { <<"no", "lawyer">>, <<"haven't", "seen">>, <<"didn't", "consult">>, <<"not", "yet">>,
      <<"looking", "for">> }

back_commands == { <<"back">>, <<"previous">>, <<"go", "back">>, <<"return">> }
help_commands ==
    { <<"help">>, <<"confused">>, <<"don't", "understand">>, <<"what's", "this">>,
      <<"explain">> }

\* Which keyword lists, and which single keywords of the compound block of the
\* scan, a message hits.  Messages and lists are fixed: tabulated once.
KeywordHits ==
    [t \in AllTexts |->
        [difficult_indicators |-> HasAny(t, difficult_indicators),
         cooling_indicators |-> HasAny(t, cooling_indicators),
         cooling_negative |-> HasAny(t, cooling_negative),
         scan_indicators |-> HasAny(t, scan_indicators),
         scan_negative |-> HasAny(t, scan_negative),
         normal_indicators_long |-> HasAny(t, normal_indicators_long),
         positive_phrases |-> HasAny(t, positive_phrases),
         uncertainty_phrases |-> HasAny(t, uncertainty_phrases),
         negative_indicators |-> HasAny(t, negative_indicators),
         nicu_indicators |-> HasAny(t, nicu_indicators),
         nicu_negative |-> HasAny(t, nicu_negative),
         delay_indicators |-> HasAny(t, delay_indicators),
         normal_indicators |-> HasAny(t, normal_indicators),
         lawyer_indicators |-> HasAny(t, lawyer_indicators),
         lawyer_negative |-> HasAny(t, lawyer_negative),
         back_commands |-> HasAny(t, back_commands),
         help_commands |-> HasAny(t, help_commands),
         kw_28_weeks |-> Has(t, <<"28", "weeks">>),
         kw_nicu |-> Has(t, <<"nicu">>),
         kw_cooling |-> Has(t, <<"cooling">>),
         kw_month |-> Has(t, <<"month">>),
         kw_delay |-> Has(t, <<"delay">>)]]

-----------------------------------------------------------------------------
(* CaseDataManager: points and ranking.                                    *)

ranking_thresholds ==
    [r \in {"very high", "high", "normal", "low"} |->
        CASE r = "very high" -> 80 [] r = "high" -> 65
          [] r = "normal" -> 40 [] OTHER -> 0]

RankOrder == <<"very high", "high", "normal", "low">>

\* for rank in [...]: if points >= thresholds[rank]: return rank
_calculate_ranking(points) ==
    IF \E i \in 1..Len(RankOrder) : points >= ranking_thresholds[RankOrder[i]]
    THEN LET i == CHOOSE i \in 1..Len(RankOrder) :
                    /\ points >= ranking_thresholds[RankOrder[i]]
                    /\ \A j \in 1..(i - 1) : points < ranking_thresholds[RankOrder[j]]
         IN RankOrder[i]
    ELSE "low"

PhaseNames == <<"age", "pregnancy", "nicu", "nicu_duration", "hie_therapy",
                "brain_scan", "milestones", "lawyer", "state">>

PhaseSet == {PhaseNames[i] : i \in 1..Len(PhaseNames)}

\* The rows of the delta table, one per `reason` family of update_points.
Rows == {"gestation", "delivery", "nicu", "nicu_duration", "hie", "scan",
         "delay", "lawyer"}

initialize_case_data ==
    [age |-> NoneV, state |-> NoneV, weeks_pregnant |-> 0,
     difficult_delivery |-> FALSE, points |-> 50, ranking |-> "normal",
     phases_completed |-> [p \in PhaseSet |-> FALSE]]

\* The ConversationManager object right after __init__.  points_log counts, per
\* row of the delta table, the update_points calls logged for the session;
\* saved counts the calls of save_case_data.
NewManager ==
    [current_phase |-> "age",
     empty_response_count |-> 0,
     case_data |-> initialize_case_data,
     implied_answers |-> [k \in {"nicu", "nicu_duration", "hie_therapy", "brain_scan",
                                 "milestones", "lawyer", "state"} |-> NoneV],
     phases |-> [p \in PhaseSet |-> [complete |-> FALSE, value |-> NoneV]],
     points_log |-> [r \in Rows |-> 0],
     saved |-> 0]

\* The mutation of update_points that forgets to floor the total at 0.
update_points_nofloor(c, points_change, row) ==
    LET total == c.case_data.points + points_change
    IN [c EXCEPT !.case_data.points = total,
                 !.case_data.ranking = _calculate_ranking(total),
                 !.points_log[row] = @ + 1]

\* The mutation of update_points that leaves the ranking as it was.
update_points_stale(c, points_change, row) ==
    LET total == c.case_data.points + points_change
        floored == IF total < 0 THEN 0 ELSE total
    IN [c EXCEPT !.case_data.points = floored,
                 !.points_log[row] = @ + 1]

update_points(c, points_change, row) ==
    LET total == c.case_data.points + points_change
        floored == IF total < 0 THEN 0 ELSE total
    IN [c EXCEPT !.case_data.points = floored,
                 !.case_data.ranking = _calculate_ranking(floored),
                 !.points_log[row] = @ + 1]

\* weeks is a value: None or a number.
apply_pregnancy_points(c, weeks, difficult_delivery) ==
    LET c1 == IF IsNone(weeks) THEN c
              ELSE update_points([c EXCEPT !.case_data.weeks_pregnant = weeks.n],
                                 IF weeks.n < 30 THEN 15
                                 ELSE IF weeks.n < 36 THEN 10 ELSE -5,
                                 "gestation")
    IN update_points([c1 EXCEPT !.case_data.difficult_delivery = difficult_delivery],
                     IF difficult_delivery THEN 15 ELSE -10, "delivery")

\* duration_days is a value: None (the default) or a number of days.
apply_nicu_points(c, had_nicu, duration_days) ==
    IF ~had_nicu THEN update_points(c, -15, "nicu")
    ELSE LET c1 == update_points(c, 10, "nicu")
         IN IF ~IsNone(duration_days) /\ duration_days.n > 0
            THEN update_points(c1, IF duration_days.n > 30 THEN 15
                                   ELSE IF duration_days.n > 14 THEN 10
                                   ELSE IF duration_days.n > 7 THEN 5 ELSE 3,
                               "nicu_duration")
            ELSE c1

apply_hie_therapy_points(c, received_hie) ==
    IF received_hie THEN update_points(c, 40, "hie") ELSE c

apply_brain_scan_points(c, had_scan) ==
    IF had_scan THEN update_points(c, 20, "scan") ELSE update_points(c, -10, "scan")

apply_milestones_points(c, has_delays) ==
    IF has_delays THEN update_points(c, 15, "delay") ELSE update_points(c, -5, "delay")

apply_lawyer_points(c, prev_consultation) ==
    IF prev_consultation THEN update_points(c, -5, "lawyer")
    ELSE update_points(c, 5, "lawyer")

update_phase_completion(c, phase) ==
    [c EXCEPT !.case_data.phases_completed[phase] = TRUE]

\* The mutation of save_case_data that writes nothing.
save_case_data_skip(c) == c

\* One case file written (the aggregate file is updated in the same call).
save_case_data(c) == [c EXCEPT !.saved = @ + 1]

-----------------------------------------------------------------------------
(* EligibilityChecker.  The criteria table (criteria.json) is supplied     *)
(* from outside; the table below is one such table: an excluded state and  *)
(* states whose rule strings exercise each of the three regular            *)
(* expressions of parse_sol_age.  A rule string is a sequence of words.    *)

excluded_states == {"Ohio"}

\* What the three searches of parse_sol_age find in a rule string: the number
\* of the leftmost match of each expression, NoneV when there is no match.
SolRule(birthday, years, num) == [birthday |-> birthday, years |-> years, num |-> num]

\* legal_rules['stateSOL'][state].get('minorSOL'): the rule string of a state,
\* <<>> for a state that is listed without a rule.
stateSOL ==
    [st \in {"California", "Texas", "Florida", "Vermont", "Nevada", "Alaska"} |->
        CASE st = "California" -> <<"18th", "birthday">>
          [] st = "Texas" -> <<"14", "years">>
          [] st = "Florida" -> <<"8", "years", "or", "18th", "birthday">>
          [] st = "Vermont" -> <<"age", "19">>
          [] st = "Nevada" -> <<"25", "years">>
          [] OTHER -> <<>>]

check_state_exclusion(state) ==
    Truthy(state) /\ state.s \in excluded_states

\* The value of a word that is a run of digits and st, nd, rd or th.
OrdinalVal == [w \in {"8th", "18th"} |-> IF w = "8th" THEN 8 ELSE 18]

\* (\d+) in a word: the number of its first run of digits, or NoneV.
SolDigits(w) ==
    IF IsNum(w) THEN NumV(NumVal[w])
    ELSE IF w \in DOMAIN OrdinalVal THEN NumV(OrdinalVal[w])
    ELSE NoneV

\* The expression `kind` matches at word i of the rule string:
\*   birthday  (\d+)(?:st|nd|rd|th)\s*birthday
\*   years     (\d+)\s*years?
\*   num       (\d+)
SolHit(sol, kind, i) ==
    CASE kind = "birthday" ->
            sol[i] \in DOMAIN OrdinalVal /\ i < Len(sol) /\ sol[i + 1] = "birthday"
      [] kind = "years" ->
            IsNum(sol[i]) /\ i < Len(sol) /\ sol[i + 1] \in {"year", "years"}
      [] OTHER -> ~IsNone(SolDigits(sol[i]))

\* re.search(...).group(1) of one expression: the leftmost match.
SolSearch(sol, kind) ==
    IF \E i \in 1..Len(sol) : SolHit(sol, kind, i)
    THEN SolDigits(sol[CHOOSE i \in 1..Len(sol) :
                          SolHit(sol, kind, i) /\ \A j \in 1..(i - 1) : ~SolHit(sol, kind, j)])
    ELSE NoneV

SolMatches(sol) ==
    SolRule(SolSearch(sol, "birthday"), SolSearch(sol, "years"), SolSearch(sol, "num"))

\* The mutation of parse_sol_age that tries "<N> years" before "<N>th birthday".
parse_sol_age_yearsfirst(sol) ==
    IF sol = <<>> THEN NoneV
    ELSE LET m == SolMatches(sol)
         IN IF ~IsNone(m.years) THEN m.years
            ELSE IF ~IsNone(m.birthday) THEN m.birthday
            ELSE m.num

\* The cutoff (in years) of a rule string, or NoneV.
parse_sol_age(sol) ==
    IF sol = <<>> THEN NoneV
    ELSE LET m == SolMatches(sol)
         IN IF ~IsNone(m.birthday) THEN m.birthday
            ELSE IF ~IsNone(m.years) THEN m.years
            ELSE m.num

is_within_sol(current_age, sol) ==
    LET sol_age == parse_sol_age(sol)
    IN IF IsNone(sol_age) THEN FALSE ELSE current_age < sol_age.n * 100

\* The global ceiling, in hundredths of a year.
AgeCeiling == 2100

\* The mutation of check_age_eligibility that skips the state's SOL rule.
check_age_eligibility_nosol(age, state) ==
    ~IsNone(age) /\ age.n < AgeCeiling

\* The mutation of check_age_eligibility that applies the state's SOL rule
\* first and the global ceiling only to a state without a rule.
check_age_eligibility_solfirst(age, state) ==
    IF IsNone(age) THEN FALSE
    ELSE IF Truthy(state) /\ state.s \in DOMAIN stateSOL /\ stateSOL[state.s] # <<>>
    THEN is_within_sol(age.n, stateSOL[state.s])
    ELSE age.n < AgeCeiling

check_age_eligibility(age, state) ==
    IF IsNone(age) THEN FALSE
    ELSE IF age.n >= AgeCeiling THEN FALSE
    ELSE IF Truthy(state) /\ state.s \in DOMAIN stateSOL
            /\ stateSOL[state.s] # <<>>
            /\ ~is_within_sol(age.n, stateSOL[state.s])
    THEN FALSE
    ELSE TRUE

check_comprehensive_eligibility(age, state) ==
    IF ~IsNone(age) /\ ~IsNone(state)
    THEN IF check_state_exclusion(state) THEN FALSE
         ELSE check_age_eligibility(age, state)
    ELSE IF ~IsNone(age) THEN check_age_eligibility(age, NoneV)
    ELSE TRUE

\* The reason returned next to the verdict (second component of the tuple),
\* named by its kind: "none" for None.
check_age_eligibility_reason(age, state) ==
    IF IsNone(age) THEN "no_age"
    ELSE IF age.n >= AgeCeiling THEN "age"
    ELSE IF Truthy(state) /\ state.s \in DOMAIN stateSOL
            /\ stateSOL[state.s] # <<>>
            /\ ~is_within_sol(age.n, stateSOL[state.s])
    THEN "state_sol"
    ELSE "none"

check_comprehensive_eligibility_reason(age, state) ==
    IF ~IsNone(age) /\ ~IsNone(state)
    THEN IF check_state_exclusion(state) THEN "excluded_state"
         ELSE check_age_eligibility_reason(age, state)
    ELSE IF ~IsNone(age) THEN check_age_eligibility_reason(age, NoneV)
    ELSE "none"

\* round(age, 1): to the nearest tenth, a tie to the even tenth.  A tie is a
\* number of hundredths ending in 5; of those only x.25 and x.75 are exact as
\* binary floats, so they are the only ties among the ages the model feeds in.
Round1(a) ==
    LET q == a \div 10
        r == a % 10
    IN IF r < 5 THEN q * 10
       ELSE IF r > 5 THEN (q + 1) * 10
       ELSE IF q % 2 = 0 THEN q * 10 ELSE (q + 1) * 10

\* The mutation of normalize_age that clamps without rounding.
normalize_age_noround(age) ==
    IF IsNone(age) THEN NoneV
    ELSE IF age.n < 0 THEN NumV(0) ELSE IF age.n > 2500 THEN NumV(2500) ELSE age

normalize_age(age) ==
    IF IsNone(age) THEN NoneV
    ELSE LET r == Round1(age.n)
         IN IF r < 0 THEN NumV(0) ELSE IF r > 2500 THEN NumV(2500) ELSE NumV(r)

validate_age_range(age) == 0 <= age.n /\ age.n <= 2500

-----------------------------------------------------------------------------
(* NLUProcessor: the oracle's reply and the pattern parsers.               *)
(*                                                                         *)
(* A reply is what _query_claude returns for one call:                     *)
(*   empty    ""             no client, or every attempt raised            *)
(*   error    "Error: 500"   ask() returns the error text, it never raises *)
(*   unknown  "unknown"                                                    *)
(*   yes, no  "yes", "no"                                                  *)
(*   num      a number (n: hundredths of a year for an age, days for a     *)
(*            duration)                                                    *)
(*   json     {"weeks": w, "difficult_delivery": d}                        *)
(*   name     a text s (a state name, or anything else)                    *)

Reply(k, n, w, d, s) == [k |-> k, n |-> n, w |-> w, d |-> d, s |-> s]
EmptyReply == Reply("empty", 0, NoneV, FALSE, "")
ErrorReply == Reply("error", 0, NoneV, FALSE, "Error: 500")
UnknownReply == Reply("unknown", 0, NoneV, FALSE, "unknown")
YesReply == Reply("yes", 0, NoneV, FALSE, "yes")
NoReply == Reply("no", 0, NoneV, FALSE, "no")
NumReply(n) == Reply("num", n, NoneV, FALSE, "number")
JsonReply(w, d) == Reply("json", 0, w, d, "json")
NameReply(s) == Reply("name", 0, NoneV, FALSE, s)

\* The word of the message at position i, lower-cased ("" outside the message).
At(text, i) == IF i \in 1..Len(text) THEN Lower(text[i]) ELSE ""

\* The leftmost position of a match (re.search), 0 when there is none.
FirstIdx(text, P(_)) ==
    IF \E i \in 1..Len(text) : P(i)
    THEN CHOOSE i \in 1..Len(text) : P(i) /\ \A j \in 1..(i - 1) : ~P(j)
    ELSE 0

NumAt(text, i) == IF IsNum(At(text, i)) THEN NumVal[At(text, i)] ELSE 0

\* Words that begin with week|wk, with month|mo, with year|yr|y.
StartsWeek(w) == w \in {"week", "weeks", "wk", "wks"}
StartsMo(w) == w \in {"month", "months", "mo", "mos"}
StartsY(w) == w \in {"y", "yr", "yrs", "year", "years", "yes", "yet"}

\* round(months / 12.0, 1), in hundredths of a year.
MonthsToYears(m) ==
    LET q == (5 * m) \div 6
        r == (5 * m) % 6
    IN IF r < 3 THEN q * 10
       ELSE IF r > 3 THEN (q + 1) * 10
       ELSE IF q % 2 = 0 THEN q * 10 ELSE (q + 1) * 10

FractionWords ==
    << <<(<<"and", "a", "half">>), 50>>, <<(<<"and", "1/2">>), 50>>,
       <<(<<"and", "a", "quarter">>), 25>>, <<(<<"and", "1/4">>), 25>>,
       <<(<<"and", "three", "quarters">>), 75>>, <<(<<"and", "3/4">>), 75>> >>

\* A number followed by the words of kw.
NumThen(text, i, kw) ==
    /\ IsNum(At(text, i))
    /\ \A j \in 1..Len(kw) : WordHas(At(text, i + j), kw[j])

\* The age patterns of the final loop, in the order they are tried; each gives
\* the position of the number of its leftmost match, or 0.
AgePatternIdx(text) ==
    << FirstIdx(text, LAMBDA i : IsNum(At(text, i)) /\ StartsY(At(text, i + 1))
                                   /\ At(text, i + 2) = "old"),
       FirstIdx(text, LAMBDA i : IsNum(At(text, i)) /\ StartsY(At(text, i + 1))),
       LET k == FirstIdx(text, LAMBDA i : At(text, i) \in {"is", "turned", "age"}
                                             /\ IsNum(At(text, i + 1)))
       IN IF k = 0 THEN 0 ELSE k + 1,
       IF Len(text) = 1 /\ IsNum(At(text, 1)) THEN 1 ELSE 0,
       LET k == FirstIdx(text, LAMBDA i : At(text, i) = "about" /\ At(text, i + 1) = "to"
                                             /\ At(text, i + 2) = "turn"
                                             /\ IsNum(At(text, i + 3)))
       IN IF k = 0 THEN 0 ELSE k + 3 >>

_parse_age_patterns(text) ==
    LET months == FirstIdx(text, LAMBDA i : IsNum(At(text, i)) /\ StartsMo(At(text, i + 1))
                                               /\ At(text, i + 2) = "old")
        almost == FirstIdx(text, LAMBDA i : At(text, i) = "almost" /\ IsNum(At(text, i + 1)))
        FracHit(f) == \E i \in 1..Len(text) : NumThen(text, i, FractionWords[f][1])
        frac == IF \E f \in 1..Len(FractionWords) : FracHit(f)
                THEN CHOOSE f \in 1..Len(FractionWords) :
                        FracHit(f) /\ \A g \in 1..(f - 1) : ~FracHit(g)
                ELSE 0
        InRange(idx, k) == idx[k] # 0 /\ NumAt(text, idx[k]) * 100 <= 2500
    IN IF months # 0 THEN NumV(MonthsToYears(NumAt(text, months)))
       ELSE IF almost # 0 THEN NumV(NumAt(text, almost + 1) * 100 - 10)
       ELSE IF frac # 0
       THEN LET i == FirstIdx(text, LAMBDA j : NumThen(text, j, FractionWords[frac][1]))
            IN NumV(NumAt(text, i) * 100 + FractionWords[frac][2])
       ELSE Bind(AgePatternIdx(text),
                 LAMBDA idx :
                    IF \E k \in 1..Len(idx) : InRange(idx, k)
                    THEN LET k == CHOOSE k \in 1..Len(idx) :
                                      InRange(idx, k) /\ \A g \in 1..(k - 1) : ~InRange(idx, g)
                         IN NumV(NumAt(text, idx[k]) * 100)
                    ELSE NoneV)

_parse_pregnancy_patterns(text) ==
    LET w1 == FirstIdx(text, LAMBDA i : IsNum(At(text, i)) /\ StartsWeek(At(text, i + 1)))
        w2 == FirstIdx(text, LAMBDA i : IsNum(At(text, i)) /\ At(text, i + 1) = "w")
        term == \E i \in 1..Len(text) : At(text, i) \in {"full", "term", "full-term"}
        weeks == IF w1 # 0 THEN NumV(NumAt(text, w1))
                 ELSE IF w2 # 0 THEN NumV(NumAt(text, w2))
                 ELSE IF term THEN NumV(40)
                 ELSE NoneV
    IN [dict |-> TRUE, weeks |-> weeks,
        difficult_delivery |-> KeywordHits[text].difficult_indicators]

\* The question contexts the phase handlers pass: which of the context tests of
\* the yes/no interpreter each one satisfies.
CtxCooling(ctx) == ctx = "hie_therapy"
CtxScan(ctx) == ctx = "brain_scan"
CtxMilestones(ctx) == ctx = "milestones"

_parse_yes_no_patterns(text, ctx) ==
    Bind(KeywordHits[text],
         LAMBDA hit :
            IF CtxCooling(ctx) /\ hit.cooling_indicators THEN ~hit.cooling_negative
            ELSE IF CtxScan(ctx) /\ hit.scan_indicators THEN ~hit.scan_negative
            ELSE IF hit.positive_phrases THEN TRUE
            ELSE IF hit.uncertainty_phrases THEN ~hit.negative_indicators
            ELSE FALSE)

IsUnit(w) == w \in {"day", "days", "week", "weeks", "month", "months"}

\* The leftmost match of the "spent <N> <unit> in the NICU" expression: the
\* position of its number, or 0.
NicuDurationIdx(text) ==
    LET AfterHead(i) ==   \* <N> <unit> (in|at) (the)? (nicu|intensive care), N at i
            /\ IsNum(At(text, i)) /\ IsUnit(At(text, i + 1))
            /\ At(text, i + 2) \in {"in", "at"}
            /\ LET k == IF At(text, i + 3) = "the" THEN i + 4 ELSE i + 3
               IN \/ WordHas(At(text, k), "nicu")
                  \/ (At(text, k) = "intensive" /\ At(text, k + 1) = "care")
        HeadEnd(i) ==   \* the position after spent|stayed|was in, starting at i
            IF At(text, i) \in {"spent", "stayed"} THEN i + 1
            ELSE IF At(text, i) = "was" /\ At(text, i + 1) = "in" THEN i + 2
            ELSE 0
        Match(i) == Bind(HeadEnd(i), LAMBDA h : h # 0 /\ (AfterHead(h) \/ AfterHead(h + 1)))
    IN Bind(HeadEnd(FirstIdx(text, Match)),
            LAMBDA h : IF h = 0 THEN 0 ELSE IF AfterHead(h) THEN h ELSE h + 1)

\* The days of the match at position i (the number, converted by its unit).
NicuDurationDays(text, i) ==
    LET unit == At(text, i + 1)
    IN IF WordHas(unit, "week") THEN NumAt(text, i) * 7
       ELSE IF WordHas(unit, "month") THEN NumAt(text, i) * 30
       ELSE NumAt(text, i)

_parse_duration_patterns(text) ==
    LET mo == FirstIdx(text, LAMBDA i : IsNum(At(text, i)) /\ StartsMo(At(text, i + 1)))
        wk == FirstIdx(text, LAMBDA i : IsNum(At(text, i)) /\ StartsWeek(At(text, i + 1)))
        dy == FirstIdx(text, LAMBDA i : IsNum(At(text, i))
                                          /\ At(text, i + 1) \in {"day", "days", "d"})
        total == NumAt(text, mo) * 30 + NumAt(text, wk) * 7 + NumAt(text, dy)
        nb == NumAt(text, FirstIdx(text, LAMBDA i : IsNum(At(text, i))))
        Two(a, b) == Has(text, <<a, b>>) \/ Has(text, <<a, "of", b>>)
    IN Bind(NicuDurationIdx(text),
            LAMBDA nd :
               IF nd # 0 THEN NicuDurationDays(text, nd)
               ELSE IF total > 0 THEN total
               ELSE IF 1 <= nb /\ nb <= 365 THEN nb
               ELSE IF Two("couple", "day") THEN 2
               ELSE IF Two("few", "day") THEN 3
               ELSE IF Two("couple", "week") THEN 14
               ELSE IF Two("few", "week") THEN 21
               ELSE IF Has(text, <<"about", "a", "week">>) THEN 7
               ELSE IF Has(text, <<"week", "and", "a", "half">>)
                       \/ Has(text, <<"week", "and", "half">>)
               THEN 10
               ELSE IF Two("couple", "month") THEN 60
               ELSE IF Two("few", "month") THEN 90
               ELSE 0)

\* The entries of the abbreviation table the model's messages can hit, in the
\* table's order.
state_abbreviations ==
    << <<"CA", "California">>, <<"OH", "Ohio">>, <<"OK", "Oklahoma">>, <<"TX", "Texas">> >>

_parse_state_patterns(text) ==
    LET Abbr(k) == \E i \in 1..Len(text) : text[i] = state_abbreviations[k][1]
        Full(k) == \E i \in 1..Len(text) :
                       Lower(text[i]) = Lower(state_abbreviations[k][2])
        n == Len(state_abbreviations)
    IN IF \E k \in 1..n : Abbr(k)
       THEN StrV(state_abbreviations[
                CHOOSE k \in 1..n : Abbr(k) /\ \A g \in 1..(k - 1) : ~Abbr(g)][2])
       ELSE IF \E k \in 1..n : Full(k)
       THEN StrV(state_abbreviations[
                CHOOSE k \in 1..n : Full(k) /\ \A g \in 1..(k - 1) : ~Full(g)][2])
       ELSE NoneV

\* A raw age (not yet normalised), or NoneV.
interpret_age(text, reply) ==
    IF Len(text) = 0 THEN NoneV
    ELSE IF reply.k = "num" THEN NumV(reply.n)
    ELSE _parse_age_patterns(text)

\* json.loads of the reply when it parses, the pattern parser otherwise.  A reply
\* that is a JSON number is returned as it is (dict = FALSE).
interpret_pregnancy_details(text, reply) ==
    IF Len(text) = 0 THEN [dict |-> TRUE, weeks |-> NoneV, difficult_delivery |-> FALSE]
    ELSE IF reply.k = "json"
    THEN [dict |-> TRUE, weeks |-> reply.w, difficult_delivery |-> reply.d]
    ELSE IF reply.k = "num"
    THEN [dict |-> FALSE, weeks |-> NoneV, difficult_delivery |-> FALSE]
    ELSE _parse_pregnancy_patterns(text)

\* user_input.lower().strip() in [...]
ExactYes(text) ==
    Len(text) = 1 /\ At(text, 1) \in {"yes", "yeah", "yep", "yup", "sure", "definitely",
                                      "absolutely", "correct"}
ExactNo(text) ==
    Len(text) = 1 /\ At(text, 1) \in {"no", "nope", "not", "never", "negative"}

interpret_yes_no(text, ctx, reply) ==
    IF Len(text) = 0 THEN FALSE
    ELSE IF CtxMilestones(ctx) /\ KeywordHits[text].normal_indicators_long THEN FALSE
    ELSE IF ExactYes(text) THEN TRUE
    ELSE IF ExactNo(text) THEN FALSE
    ELSE IF reply.k # "empty" THEN reply.k = "yes"
    ELSE _parse_yes_no_patterns(text, ctx)

interpret_duration(text, reply) ==
    IF Len(text) = 0 THEN 0
    ELSE IF reply.k = "num" THEN reply.n
    ELSE _parse_duration_patterns(text)

interpret_state(text, reply) ==
    IF Len(text) = 0 THEN NoneV
    ELSE IF reply.k \notin {"empty", "unknown"} THEN StrV(reply.s)
    ELSE _parse_state_patterns(text)

-----------------------------------------------------------------------------
(* ConversationManager: the implied-answer scan.                           *)

\* The mutation of ScanTopic in which a second hit flips the stored answer.
ScanTopic_toggle(ia, key, pos, neg) ==
    IF pos
    THEN [ia EXCEPT ![key] = IF IsNone(@) THEN BoolV(~neg) ELSE BoolV(~@.b)]
    ELSE ia

\* The mutation of ScanTopic in which a negative phrase alone sets False.
ScanTopic_negalone(ia, key, pos, neg) ==
    IF pos \/ neg THEN [ia EXCEPT ![key] = BoolV(~neg)] ELSE ia

\* One keyword topic of the scan: a hit sets the key, to False when a negative
\* phrase is present too.
ScanTopic(ia, key, pos, neg) ==
    IF pos THEN [ia EXCEPT ![key] = BoolV(~neg)] ELSE ia

\* The mutation of ScanCompound that fills in only what the scan left unset.
ScanCompound_unset(ia, hit) ==
    IF hit.kw_28_weeks /\ hit.kw_nicu /\ hit.kw_cooling
    THEN LET Fill(a, k, v) == IF IsNone(a[k]) THEN [a EXCEPT ![k] = v] ELSE a
             a1 == Fill(ia, "nicu", BoolV(TRUE))
             a2 == IF hit.kw_month THEN Fill(a1, "nicu_duration", NumV(30)) ELSE a1
             a3 == Fill(a2, "hie_therapy", BoolV(TRUE))
         IN IF hit.kw_delay THEN Fill(a3, "milestones", BoolV(TRUE)) ELSE a3
    ELSE ia

\* The compound "28 weeks / nicu / cooling" block at the end of the scan.
ScanCompound(ia, hit) ==
    IF hit.kw_28_weeks /\ hit.kw_nicu /\ hit.kw_cooling
    THEN LET a1 == [ia EXCEPT !["nicu"] = BoolV(TRUE)]
             a2 == IF hit.kw_month THEN [a1 EXCEPT !["nicu_duration"] = NumV(30)] ELSE a1
             a3 == [a2 EXCEPT !["hie_therapy"] = BoolV(TRUE)]
         IN IF hit.kw_delay THEN [a3 EXCEPT !["milestones"] = BoolV(TRUE)] ELSE a3
    ELSE ia

\* The "spent <N> <unit> in the NICU" expression of the scan on each message:
\* whether it matches, and the days of its match.  Tabulated once.
NicuStay ==
    [t \in AllTexts |->
        Bind(NicuDurationIdx(t),
             LAMBDA nd : [found |-> nd # 0, days |-> NicuDurationDays(t, nd)])]

\* The scan up to its interpret_state call: the keyword topics and the NICU
\* stay, given the lists the message hits (hit) and the NICU-stay match (stay).
ScanKeywords(ia, hit, stay) ==
    LET i1 == ScanTopic(ia, "nicu", hit.nicu_indicators, hit.nicu_negative)
        i2 == IF stay.found THEN [i1 EXCEPT !["nicu_duration"] = NumV(stay.days)] ELSE i1
        i3 == ScanTopic(i2, "hie_therapy", hit.cooling_indicators, hit.cooling_negative)
        i4 == ScanTopic(i3, "brain_scan", hit.scan_indicators, hit.scan_negative)
        i5 == ScanTopic(i4, "milestones", hit.delay_indicators, hit.normal_indicators)
    IN ScanTopic(i5, "lawyer", hit.lawyer_indicators, hit.lawyer_negative)

\* The scan from the return of interpret_state on: the state it found in the
\* message, and the compound block.
ScanRest(ia, hit, state) ==
    ScanCompound(IF Truthy(state) THEN [ia EXCEPT !["state"] = state] ELSE ia, hit)

\* The scan, given the lists the message hits (hit), the NICU-stay match (stay)
\* and the state interpret_state finds in the message.
Scan(ia, hit, stay, state) == ScanRest(ScanKeywords(ia, hit, stay), hit, state)

\* reply: the oracle's reply to the scan's interpret_state call.
_analyze_for_implied_answers(c, text, reply) ==
    IF Len(text) = 0 THEN c
    ELSE [c EXCEPT !.implied_answers =
              Scan(@, KeywordHits[text], NicuStay[text], interpret_state(text, reply))]

-----------------------------------------------------------------------------
(* ConversationManager: the phase handlers.  A handler returns the manager *)
(* and the kind of response_data it returns:                               *)
(*   ok, error, ineligible, end_chat, help, back, empty.                   *)

Out(c, res) == [c |-> c, res |-> res]

\* phases[p]['value'] = v; phases[p]['complete'] = True; update_phase_completion
Complete(c, p, v) ==
    update_phase_completion(
        [c EXCEPT !.phases[p] = [complete |-> TRUE, value |-> v]], p)

Goto(c, p) == [c EXCEPT !.current_phase = p]

FullTerm(c) == c.case_data.weeks_pregnant >= 36

_handle_implied_state_answer(c) ==
    LET state == c.implied_answers["state"]
    IN Bind(Complete([c EXCEPT !.case_data.state = state], "state", state),
            LAMBDA c1 :
               IF ~check_comprehensive_eligibility(c1.case_data.age, state)
               THEN Out(c1, "ineligible")
               ELSE Out(save_case_data(Goto(c1, "complete")), "ok"))

_handle_implied_lawyer_answer(c) ==
    LET v == c.implied_answers["lawyer"]
    IN Bind(apply_lawyer_points(Complete(c, "lawyer", v), v.b),
            LAMBDA c1 :
               IF v.b THEN Out(c1, "end_chat")
               ELSE IF ~IsNone(c1.implied_answers["state"])
               THEN _handle_implied_state_answer(c1)
               ELSE Out(Goto(c1, "state"), "ok"))

_handle_implied_milestones_answer(c) ==
    LET v == c.implied_answers["milestones"]
    IN Out(Goto(apply_milestones_points(Complete(c, "milestones", v), v.b), "lawyer"), "ok")

_handle_implied_brain_scan_answer(c) ==
    LET v == c.implied_answers["brain_scan"]
    IN Out(Goto(apply_brain_scan_points(Complete(c, "brain_scan", v), v.b), "milestones"), "ok")

_handle_implied_hie_answer(c) ==
    LET v == c.implied_answers["hie_therapy"]
    IN Bind(apply_hie_therapy_points(Complete(c, "hie_therapy", v), v.b),
            LAMBDA c1 :
               IF ~Truthy(c1.phases["nicu"].value) THEN Out(Goto(c1, "milestones"), "ok")
               ELSE Out(Goto(c1, "brain_scan"), "ok"))

\* Returns the manager only: the caller returns its own response_data.
_handle_implied_nicu_answer(c) ==
    LET v == c.implied_answers["nicu"]
        d == c.implied_answers["nicu_duration"]
    IN IF ~v.b
       THEN Bind(apply_nicu_points(Complete(c, "nicu", v), FALSE, NoneV),
                 LAMBDA c2 :
                    IF FullTerm(c2) THEN Goto(c2, "hie_therapy") ELSE Goto(c2, "milestones"))
       ELSE Bind(apply_nicu_points(Complete(c, "nicu", v), TRUE, NoneV),
                 LAMBDA c2 :
                    IF ~IsNone(d)
                    THEN Bind(apply_nicu_points(Complete(c2, "nicu_duration", d), TRUE, d),
                              LAMBDA c3 :
                                 IF FullTerm(c3) THEN Goto(c3, "hie_therapy")
                                 ELSE Goto(c3, "brain_scan"))
                    ELSE Goto(c2, "nicu_duration"))

_analyze_age_response(text, reply) ==
    Bind(interpret_age(text, reply),
         LAMBDA parsed_age :
            IF Len(text) = 0 \/ IsNone(parsed_age) THEN NoneV
            ELSE Bind(normalize_age(parsed_age),
                      LAMBDA normalized_age :
                         IF ~validate_age_range(normalized_age) THEN NoneV
                         ELSE normalized_age))

_process_age_response(c, text, reply) ==
    Bind(_analyze_age_response(text, reply),
         LAMBDA age :
            IF IsNone(age) THEN Out(c, "error")
            ELSE LET c1 == Complete([c EXCEPT !.case_data.age = age], "age", age)
                 IN IF ~check_comprehensive_eligibility(age, NoneV)
                    THEN Out(c1, "ineligible")
                    ELSE Out(Goto(c1, "pregnancy"), "ok"))

\* A reply that json.loads turns into a number has no .get: the handler raises
\* after the phase was marked, and analyze_response returns its error.
_process_pregnancy_response(c, text, reply) ==
    Bind(interpret_pregnancy_details(text, reply),
         LAMBDA details :
            IF ~details.dict THEN Out(Complete(c, "pregnancy", Stored(text)), "error")
            ELSE Bind(apply_pregnancy_points(Complete(c, "pregnancy", Stored(text)),
                                             details.weeks, details.difficult_delivery),
                      LAMBDA c2 :
                         IF ~IsNone(c2.implied_answers["nicu"])
                         THEN Out(_handle_implied_nicu_answer(c2), "ok")
                         ELSE Out(Goto(c2, "nicu"), "ok")))

_process_nicu_response(c, text, reply) ==
    Bind(interpret_yes_no(text, "nicu", reply),
         LAMBDA is_nicu :
            Bind(apply_nicu_points(Complete(c, "nicu", BoolV(is_nicu)), is_nicu, NoneV),
                 LAMBDA c1 :
                    IF ~is_nicu
                    THEN IF FullTerm(c1) THEN Out(Goto(c1, "hie_therapy"), "ok")
                         ELSE Out(Goto(c1, "milestones"), "ok")
                    ELSE Out(Goto(c1, "nicu_duration"), "ok")))

\* The mutation of _process_nicu_duration_response that asks the HIE question
\* whatever the gestation.
_process_nicu_duration_response_linear(c, text, reply) ==
    Bind(apply_nicu_points(Complete(c, "nicu_duration", Stored(text)), TRUE,
                           NumV(interpret_duration(text, reply))),
         LAMBDA c1 :
            IF ~IsNone(c1.implied_answers["hie_therapy"]) THEN _handle_implied_hie_answer(c1)
            ELSE IF ~IsNone(c1.implied_answers["brain_scan"])
            THEN _handle_implied_brain_scan_answer(c1)
            ELSE Out(Goto(c1, "hie_therapy"), "ok"))

_process_nicu_duration_response(c, text, reply) ==
    Bind(apply_nicu_points(Complete(c, "nicu_duration", Stored(text)), TRUE,
                           NumV(interpret_duration(text, reply))),
         LAMBDA c1 :
            IF ~IsNone(c1.implied_answers["hie_therapy"]) THEN _handle_implied_hie_answer(c1)
            ELSE IF ~IsNone(c1.implied_answers["brain_scan"])
            THEN _handle_implied_brain_scan_answer(c1)
            ELSE IF FullTerm(c1) THEN Out(Goto(c1, "hie_therapy"), "ok")
            ELSE Out(Goto(c1, "brain_scan"), "ok"))

\* The mutation of _process_hie_therapy_response that asks again after a "no".
_process_hie_therapy_response_reask(c, text, reply) ==
    Bind(interpret_yes_no(text, "hie_therapy", reply),
         LAMBDA received_hie :
            Bind(apply_hie_therapy_points(Complete(c, "hie_therapy", BoolV(received_hie)),
                                          received_hie),
                 LAMBDA c1 :
                    IF ~received_hie THEN Out(c1, "ok")
                    ELSE IF ~IsNone(c1.implied_answers["brain_scan"])
                    THEN _handle_implied_brain_scan_answer(c1)
                    ELSE IF ~Truthy(c1.phases["nicu"].value)
                    THEN Out(Goto(c1, "milestones"), "ok")
                    ELSE Out(Goto(c1, "brain_scan"), "ok")))

_process_hie_therapy_response(c, text, reply) ==
    Bind(interpret_yes_no(text, "hie_therapy", reply),
         LAMBDA received_hie :
            Bind(apply_hie_therapy_points(Complete(c, "hie_therapy", BoolV(received_hie)),
                                          received_hie),
                 LAMBDA c1 :
                    IF ~IsNone(c1.implied_answers["brain_scan"])
                    THEN _handle_implied_brain_scan_answer(c1)
                    ELSE IF ~Truthy(c1.phases["nicu"].value)
                    THEN Out(Goto(c1, "milestones"), "ok")
                    ELSE Out(Goto(c1, "brain_scan"), "ok")))

_process_brain_scan_response(c, text, reply) ==
    Bind(interpret_yes_no(text, "brain_scan", reply),
         LAMBDA received_scan :
            Bind(apply_brain_scan_points(Complete(c, "brain_scan", BoolV(received_scan)),
                                         received_scan),
                 LAMBDA c1 :
                    IF ~IsNone(c1.implied_answers["milestones"])
                    THEN _handle_implied_milestones_answer(c1)
                    ELSE Out(Goto(c1, "milestones"), "ok")))

_process_milestones_response(c, text, reply) ==
    Bind(apply_milestones_points(
             Complete(c, "milestones", Stored(text)),
             IF KeywordHits[text].normal_indicators_long THEN FALSE
             ELSE interpret_yes_no(text, "milestones", reply)),
         LAMBDA c1 :
            IF ~IsNone(c1.implied_answers["lawyer"]) THEN _handle_implied_lawyer_answer(c1)
            ELSE Out(Goto(c1, "lawyer"), "ok"))

\* The mutation of _process_lawyer_response that returns to the milestones
\* question after a "no".
_process_lawyer_response_reask(c, text, reply) ==
    Bind(interpret_yes_no(text, "lawyer", reply),
         LAMBDA prev_consultation :
            Bind(apply_lawyer_points(Complete(c, "lawyer", BoolV(prev_consultation)),
                                     prev_consultation),
                 LAMBDA c1 :
                    IF prev_consultation THEN Out(c1, "end_chat")
                    ELSE Out(Goto(c1, "milestones"), "ok")))

_process_lawyer_response(c, text, reply) ==
    Bind(interpret_yes_no(text, "lawyer", reply),
         LAMBDA prev_consultation :
            Bind(apply_lawyer_points(Complete(c, "lawyer", BoolV(prev_consultation)),
                                     prev_consultation),
                 LAMBDA c1 :
                    IF prev_consultation THEN Out(c1, "end_chat")
                    ELSE IF ~IsNone(c1.implied_answers["state"])
                    THEN _handle_implied_state_answer(c1)
                    ELSE Out(Goto(c1, "state"), "ok")))

\* The mutation of _process_state_response that also refuses a low ranking.
_process_state_response_scored(c, text, reply) ==
    Bind(interpret_state(text, reply),
         LAMBDA found :
            Bind(IF ~Truthy(found) THEN Stored(text) ELSE found,
                 LAMBDA state :
                    Bind(Complete([c EXCEPT !.case_data.state = state], "state", state),
                         LAMBDA c1 :
                            IF \/ ~check_comprehensive_eligibility(c1.case_data.age, state)
                               \/ c1.case_data.ranking = "low"
                            THEN Out(c1, "ineligible")
                            ELSE Out(save_case_data(Goto(c1, "complete")), "ok"))))

_process_state_response(c, text, reply) ==
    Bind(interpret_state(text, reply),
         LAMBDA found :
            Bind(IF ~Truthy(found) THEN Stored(text) ELSE found,
                 LAMBDA state :
                    Bind(Complete([c EXCEPT !.case_data.state = state], "state", state),
                         LAMBDA c1 :
                            IF ~check_comprehensive_eligibility(c1.case_data.age, state)
                            THEN Out(c1, "ineligible")
                            ELSE Out(save_case_data(Goto(c1, "complete")), "ok"))))

_is_back_command(text) == KeywordHits[text].back_commands

_is_help_command(text) == KeywordHits[text].help_commands

\* phases_list.index(current_phase), 0-based; -1 stands for the ValueError.
PhaseIndex(p) ==
    IF p \in PhaseSet THEN (CHOOSE i \in 1..Len(PhaseNames) : PhaseNames[i] = p) - 1
    ELSE -1

\* The mutation of _handle_back_request that also drops the answer of the
\* reopened phase.
_handle_back_request_clears(c) ==
    Bind(PhaseIndex(c.current_phase),
         LAMBDA current_index :
            IF current_index <= 0 THEN Out(c, "error")
            ELSE Out(Goto([c EXCEPT !.phases[PhaseNames[current_index]] =
                                       [complete |-> FALSE, value |-> NoneV]],
                          PhaseNames[current_index]), "back"))

\* The mutation of _handle_back_request that reports success at the first
\* phase too.
_handle_back_request_first(c) ==
    Bind(PhaseIndex(c.current_phase),
         LAMBDA current_index :
            IF current_index <= 0 THEN Out(c, "back")
            ELSE Out(Goto([c EXCEPT !.phases[PhaseNames[current_index]].complete = FALSE],
                          PhaseNames[current_index]), "back"))

_handle_back_request(c) ==
    Bind(PhaseIndex(c.current_phase),
         LAMBDA current_index :
            IF current_index <= 0 THEN Out(c, "error")
            ELSE Out(Goto([c EXCEPT !.phases[PhaseNames[current_index]].complete = FALSE],
                          PhaseNames[current_index]), "back"))

\* help_messages.get(current_phase, <the general text>): the texts are named by
\* their key.
help_messages(p) == IF p \in PhaseSet THEN p ELSE "general"

\* The mutation of _handle_help_request that explains the first question
\* whatever the phase and marks the phase answered.
_handle_help_request_first(c) ==
    [c |-> IF c.current_phase \in PhaseSet
           THEN [c EXCEPT !.phases[c.current_phase].complete = TRUE]
           ELSE c,
     res |-> "help", help |-> help_messages("age")]

_handle_help_request(c) ==
    [c |-> c, res |-> "help", help |-> help_messages(c.current_phase)]

\* The mutation of empty_response that also forgets the implied answers.
empty_response_forgets(c) ==
    Out([c EXCEPT !.empty_response_count = @ + 1,
                  !.implied_answers = [k \in DOMAIN @ |-> NoneV]], "empty")

\* The branch of analyze_response for a message that is empty once stripped.
empty_response(c) == Out([c EXCEPT !.empty_response_count = @ + 1], "empty")

\* The mutation of get_next_question that waits for one more blank message.
get_next_question_late(c) ==
    IF c.empty_response_count > 3 THEN [question |-> "control", is_control |-> TRUE]
    ELSE IF c.current_phase = "complete"
    THEN [question |-> "completion", is_control |-> FALSE]
    ELSE [question |-> c.current_phase, is_control |-> FALSE]

\* The texts are named: "control" for the continue/quit prompt, "completion"
\* for the closing message, the phase's name for the question of a phase.
get_next_question(c) ==
    IF c.empty_response_count >= 3 THEN [question |-> "control", is_control |-> TRUE]
    ELSE IF c.current_phase = "complete"
    THEN [question |-> "completion", is_control |-> FALSE]
    ELSE [question |-> c.current_phase, is_control |-> FALSE]

\* r_scan, r_phase: the oracle's replies to the scan's interpret_state call and
\* to the interpreter call of the phase handler.
\* The dispatch of analyze_response on the phase p it read from current_phase.
handle_phase(p, c1, text, r_phase) ==
    CASE p = "age" -> _process_age_response(c1, text, r_phase)
      [] p = "pregnancy" -> _process_pregnancy_response(c1, text, r_phase)
      [] p = "nicu" -> _process_nicu_response(c1, text, r_phase)
      [] p = "nicu_duration" -> _process_nicu_duration_response(c1, text, r_phase)
      [] p = "hie_therapy" -> _process_hie_therapy_response(c1, text, r_phase)
      [] p = "brain_scan" -> _process_brain_scan_response(c1, text, r_phase)
      [] p = "milestones" -> _process_milestones_response(c1, text, r_phase)
      [] p = "lawyer" -> _process_lawyer_response(c1, text, r_phase)
      [] p = "state" -> _process_state_response(c1, text, r_phase)
      [] OTHER -> Out(c1, "ok")

analyze_response(c, text, r_scan, r_phase) ==
    IF Len(text) = 0
    THEN empty_response(c)
    ELSE IF _is_back_command(text)
    THEN _handle_back_request([c EXCEPT !.empty_response_count = 0])
    ELSE IF _is_help_command(text)
    THEN _handle_help_request([c EXCEPT !.empty_response_count = 0])
    ELSE Bind(_analyze_for_implied_answers([c EXCEPT !.empty_response_count = 0], text,
                                           r_scan),
              LAMBDA c1 : handle_phase(c.current_phase, c1, text, r_phase))

-----------------------------------------------------------------------------
(* MessengerSession.process_message: the guard around analyze_response.    *)

\* MessengerSession.__init__; res is the kind of the last response_data
\* ("none" before the first message, "ignored" for a message that was dropped).
NewSession ==
    [cm |-> NewManager, conversation_active |-> TRUE, handled_by_agent |-> FALSE,
     res |-> "none"]

\* The mutation of Respond that leaves the conversation open after the
\* farewell.
Respond_keepopen(sess, out) ==
    IF out.res \in {"error", "help", "back", "end_chat"}
    THEN [sess EXCEPT !.cm = out.c, !.res = out.res]
    ELSE IF out.res = "ineligible"
    THEN [sess EXCEPT !.cm = out.c, !.res = out.res, !.handled_by_agent = TRUE]
    ELSE IF out.c.empty_response_count >= 3
    THEN [sess EXCEPT !.cm = out.c, !.res = out.res]
    ELSE IF out.c.current_phase = "complete"
    THEN [sess EXCEPT !.cm = out.c, !.res = out.res, !.handled_by_agent = TRUE]
    ELSE [sess EXCEPT !.cm = out.c, !.res = out.res]

\* The part of process_message after analyze_response returned out.
Respond(sess, out) ==
    IF out.res \in {"error", "help", "back"}
    THEN [sess EXCEPT !.cm = out.c, !.res = out.res]
    ELSE IF out.res = "ineligible"
    THEN [sess EXCEPT !.cm = out.c, !.res = out.res, !.handled_by_agent = TRUE]
    ELSE IF out.res = "end_chat"
    THEN [sess EXCEPT !.cm = out.c, !.res = out.res, !.conversation_active = FALSE]
    ELSE IF out.c.empty_response_count >= 3
    THEN [sess EXCEPT !.cm = out.c, !.res = out.res]
    ELSE IF out.c.current_phase = "complete"
    THEN [sess EXCEPT !.cm = out.c, !.res = out.res, !.handled_by_agent = TRUE]
    ELSE [sess EXCEPT !.cm = out.c, !.res = out.res]

\* The mutation of process_message that keeps processing after a hand-off.
process_message_noguard(sess, text, r_scan, r_phase) ==
    Respond(sess, analyze_response(sess.cm, text, r_scan, r_phase))

process_message(sess, text, r_scan, r_phase) ==
    IF ~sess.conversation_active \/ sess.handled_by_agent
    THEN [sess EXCEPT !.res = "ignored"]
    ELSE Respond(sess, analyze_response(sess.cm, text, r_scan, r_phase))

-----------------------------------------------------------------------------
(* The oracle replies the session is driven with.                          *)

\* The oracle's answers to the interpreter call of the handler of phase p.
PhaseReplies(p) ==
    CASE p = "age" -> {NumReply(2200)}
      [] p = "pregnancy" -> {JsonReply(NumV(40), FALSE)}
      [] p = "nicu_duration" -> {NumReply(15)}
      [] p = "state" -> {NameReply("Texas")}
      [] OTHER -> {YesReply}

\* The replies to the two oracle calls of one message, <<scan, handler>>: there
\* is no client, or the oracle answers (and finds no state in the message).
OracleReplies(p) ==
    { <<EmptyReply, EmptyReply>> } \cup { <<UnknownReply, r>> : r \in PhaseReplies(p) }

-----------------------------------------------------------------------------
(* The session as a state machine.                                         *)

Accepting == session.conversation_active /\ ~session.handled_by_agent

\* One webhook event of the sender: process_message(text), whole.
Deliver(text, r_scan, r_phase) ==
    session' = process_message(session, text, r_scan, r_phase)

\* The request threads of the server, and a thread that handles no request.
Threads == {"t1", "t2"}

IdleThread == [pc |-> "idle", sender |-> "", text |-> <<>>, phase |-> "", seq |-> 0]

Init ==
    /\ session = NewSession
    /\ n_back = 0
    /\ last_update = [before |-> 50, delta |-> 0]
    /\ probe = [op |-> "none"]
    /\ empty_run = 0
    /\ active_conversations = [s \in {} |-> NewSession]
    /\ inflight = [t \in Threads |-> IdleThread]
    /\ n_recv = 0

Answer ==
    /\ Accepting
    /\ \E text \in AnswerTexts, r \in OracleReplies(session.cm.current_phase) :
          Deliver(text, r[1], r[2])
    /\ UNCHANGED <<n_back, last_update, probe, empty_run, hook>>

Back ==
    /\ Accepting
    /\ n_back < MaxBack
    /\ Deliver(T_Back, EmptyReply, EmptyReply)
    /\ n_back' = n_back + 1
    /\ UNCHANGED <<last_update, probe, empty_run, hook>>

\* A message to a session that was ended or handed to an agent.
Ignored ==
    /\ ~Accepting
    /\ \E text \in {T_Yes, T_Back, T_Help, T_Blank} : Deliver(text, EmptyReply, EmptyReply)
    /\ UNCHANGED <<n_back, last_update, probe, empty_run, hook>>

Next == Answer \/ Back \/ Ignored

Spec == Init /\ [][Next]_vars

-----------------------------------------------------------------------------
(* The case record under direct update_points calls.                       *)

\* The rows of the delta table with the deltas the apply_* methods pass.
DeltaTable ==
    { <<"gestation", 15>>, <<"gestation", 10>>, <<"gestation", -5>>,
      <<"delivery", 15>>, <<"delivery", -10>>, <<"nicu", 10>>, <<"nicu", -15>>,
      <<"nicu_duration", 15>>, <<"nicu_duration", 10>>, <<"nicu_duration", 5>>,
      <<"nicu_duration", 3>>, <<"hie", 40>>, <<"scan", 20>>, <<"scan", -10>>,
      <<"delay", 15>>, <<"delay", -5>>, <<"lawyer", -5>>, <<"lawyer", 5>> }

Calls(c) ==
    c.points_log["gestation"] + c.points_log["delivery"] + c.points_log["nicu"]
    + c.points_log["nicu_duration"] + c.points_log["hie"] + c.points_log["scan"]
    + c.points_log["delay"] + c.points_log["lawyer"]

\* One call update_points(case_data, delta, reason) on the case record.
UpdatePointsCall ==
    /\ Calls(session.cm) < MaxCalls
    /\ \E d \in DeltaTable :
          /\ session' = [session EXCEPT !.cm = update_points(@, d[2], d[1])]
          /\ last_update' = [before |-> session.cm.case_data.points, delta |-> d[2]]
    /\ UNCHANGED <<n_back, probe, empty_run, hook>>

NextRank == UpdatePointsCall

SpecRank == Init /\ [][NextRank]_vars

-----------------------------------------------------------------------------
(* The session under commands, blank messages and a failing oracle.        *)

DialogTexts == {T_Fifteen, T_Yes, T_No, T_Scenario, T_FullTermMri, T_Ohio}

\* The replies to the two oracle calls of one message, <<scan, handler>>: there
\* is no client; or every request fails with an HTTP error status, which ask()
\* returns as the text "Error: 500"; or, for the pregnancy question, the oracle
\* answers with a bare JSON number instead of a JSON object.
DialogReplies(p) ==
    { <<EmptyReply, EmptyReply>>, <<ErrorReply, ErrorReply>> }
    \cup (IF p = "pregnancy" THEN { <<UnknownReply, NumReply(5)>> } ELSE {})

\* An answer to the current question.
Say ==
    /\ Accepting
    /\ \E text \in DialogTexts, r \in DialogReplies(session.cm.current_phase) :
          Deliver(text, r[1], r[2])
    /\ empty_run' = 0
    /\ UNCHANGED <<n_back, last_update, probe, hook>>

\* The message "back".
GoBack ==
    /\ Accepting
    /\ n_back < MaxBack
    /\ Deliver(T_Back, EmptyReply, EmptyReply)
    /\ n_back' = n_back + 1
    /\ empty_run' = 0
    /\ UNCHANGED <<last_update, probe, hook>>

\* The message "help".
Help ==
    /\ Accepting
    /\ Deliver(T_Help, EmptyReply, EmptyReply)
    /\ empty_run' = 0
    /\ UNCHANGED <<n_back, last_update, probe, hook>>

\* A whitespace-only message.
Blank ==
    /\ Accepting
    /\ empty_run < MaxEmpty
    /\ Deliver(T_Blank, EmptyReply, EmptyReply)
    /\ empty_run' = empty_run + 1
    /\ UNCHANGED <<n_back, last_update, probe, hook>>

NextDialog == Say \/ GoBack \/ Help \/ Blank

SpecDialog == Init /\ [][NextDialog]_vars

-----------------------------------------------------------------------------
(* The interpreters of NLUProcessor called directly.                       *)

\* The non-empty messages.
NluTexts == AnswerTexts \cup {T_Back, T_Help} \cup AgeTexts

\* What _query_claude can return: "" (no client), the error text of ask(),
\* "unknown", a sentence that answers nothing, "yes", "no", a number, a JSON
\* object, a state name.
NluReplies ==
    {EmptyReply, ErrorReply, UnknownReply, NameReply("I cannot tell"), YesReply, NoReply,
     NumReply(15), JsonReply(NumV(40), FALSE), NameReply("Texas")}

\* The questions interpret_yes_no is called for.
NluContexts == {"nicu", "hie_therapy", "brain_scan", "milestones", "lawyer"}

\* interpret_yes_no gets as far as the oracle call for this text.
YesNoAsksOracle(text, ctx) ==
    /\ Len(text) > 0
    /\ ~(CtxMilestones(ctx) /\ KeywordHits[text].normal_indicators_long)
    /\ ~ExactYes(text)
    /\ ~ExactNo(text)

\* The five interpreters on one text with one oracle reply, next to the
\* pattern parsers and to the interpreters without a client on the same text.
\* The methods are pure: a behaviour makes one such call.
Interpret ==
    /\ probe.op = "none"
    /\ \E text \in NluTexts, reply \in NluReplies, ctx \in NluContexts :
          probe' = [op |-> "interpret", text |-> text, reply |-> reply, ctx |-> ctx,
                    asked |-> YesNoAsksOracle(text, ctx),
                    age |-> interpret_age(text, reply),
                    pregnancy |-> interpret_pregnancy_details(text, reply),
                    yes_no |-> interpret_yes_no(text, ctx, reply),
                    duration |-> interpret_duration(text, reply),
                    state |-> interpret_state(text, reply),
                    age_parsed |-> _parse_age_patterns(text),
                    pregnancy_parsed |-> _parse_pregnancy_patterns(text),
                    yes_no_parsed |-> _parse_yes_no_patterns(text, ctx),
                    duration_parsed |-> _parse_duration_patterns(text),
                    state_parsed |-> _parse_state_patterns(text),
                    age_down |-> interpret_age(text, EmptyReply),
                    pregnancy_down |-> interpret_pregnancy_details(text, EmptyReply),
                    yes_no_down |-> interpret_yes_no(text, ctx, EmptyReply),
                    duration_down |-> interpret_duration(text, EmptyReply),
                    state_down |-> interpret_state(text, EmptyReply)]
    /\ UNCHANGED <<session, n_back, last_update, empty_run, hook>>

NextNlu == Interpret

SpecNlu == Init /\ [][NextNlu]_vars

-----------------------------------------------------------------------------
(* The age question answered with ages of every kind.                      *)

\* The numbers the oracle names as the age, in hundredths of a year: negative,
\* between two tenths, a tie of two tenths, just under and over 21 and 25.
AgeNumbers == {-300, -4, 0, 4, 525, 575, 1234, 2094, 2096, 2499, 2504, 2506, 3000}

AgeReplies == {EmptyReply} \cup {NumReply(n) : n \in AgeNumbers}

\* An answer to the age question.
SayAge ==
    /\ Accepting
    /\ session.cm.current_phase = "age"
    /\ \E text \in AgeTexts \cup {T_Fifteen}, r \in AgeReplies :
          Deliver(text, EmptyReply, r)
    /\ UNCHANGED <<n_back, last_update, probe, empty_run, hook>>

\* An answer to a later question, with no oracle.
SayLater ==
    /\ Accepting
    /\ session.cm.current_phase # "age"
    /\ \E text \in {T_Yes, T_No, T_Ohio, T_NoLawyer} :
          Deliver(text, EmptyReply, EmptyReply)
    /\ UNCHANGED <<n_back, last_update, probe, empty_run, hook>>

NextAge == SayAge \/ SayLater

SpecAge == Init /\ [][NextAge]_vars

-----------------------------------------------------------------------------
(* _analyze_for_implied_answers called directly, twice on one message.     *)

\* implied_answers before the scan: nothing implied yet, every topic implied
\* with a yes, every topic implied with a no.
ScanPriors ==
    { NewManager.implied_answers,
      [k \in DOMAIN NewManager.implied_answers |->
          CASE k = "nicu_duration" -> NumV(7) [] k = "state" -> StrV("Ohio")
            [] OTHER -> BoolV(TRUE)],
      [k \in DOMAIN NewManager.implied_answers |->
          CASE k = "nicu_duration" -> NumV(30) [] k = "state" -> StrV("California")
            [] OTHER -> BoolV(FALSE)] }

ScanInputs == ScanTexts \cup {T_Scenario, T_NoNicu, T_NoLawyer, T_FullTermMri, T_Ohio, T_Yes}

\* The oracle's reply to the interpret_state call of a scan.
ScanReplies == {EmptyReply, ErrorReply, UnknownReply, NameReply("Texas")}

\* implied_answers after one scan of text, starting from ia.
ScanOnce(ia, text, reply) ==
    _analyze_for_implied_answers([NewManager EXCEPT !.implied_answers = ia], text,
                                 reply).implied_answers

\* The scan run on one message, and run on it again.
ScanTwice ==
    /\ probe.op = "none"
    /\ \E prior \in ScanPriors, text \in ScanInputs, r1 \in ScanReplies, r2 \in ScanReplies :
          probe' = [op |-> "scan", prior |-> prior, text |-> text, r1 |-> r1, r2 |-> r2,
                    once |-> ScanOnce(prior, text, r1),
                    once2 |-> ScanOnce(prior, text, r2),
                    twice |-> ScanOnce(ScanOnce(prior, text, r1), text, r2)]
    /\ UNCHANGED <<session, n_back, last_update, empty_run, hook>>

NextScan == ScanTwice

SpecScan == Init /\ [][NextScan]_vars

-----------------------------------------------------------------------------
(* check_comprehensive_eligibility called directly.                        *)

\* Ages in hundredths of a year, around the cutoffs 8, 14, 18, 19, 21 and 25;
\* None.
EligAges ==
    {NoneV} \cup {NumV(a) : a \in {0, 500, 790, 800, 1390, 1400, 1500, 1790, 1800,
                                    1890, 1900, 2090, 2100, 2200, 2490, 2500}}

\* None, the empty text, excluded and accepted states, states with and without
\* an SOL rule, and texts that are no state.
EligStates ==
    {NoneV} \cup {StrV(x) : x \in {"", "Ohio", "ohio", "California", "Texas", "Florida",
                                   "Vermont", "Nevada", "Alaska", "Oklahoma",
                                   "Error: 500", "<message>"}}

\* One call check_comprehensive_eligibility(age, state).
CheckEligibility ==
    /\ probe.op = "none"
    /\ \E age \in EligAges, state \in EligStates :
          probe' = [op |-> "eligibility", age |-> age, state |-> state,
                    eligible |-> check_comprehensive_eligibility(age, state),
                    reason |-> check_comprehensive_eligibility_reason(age, state)]
    /\ UNCHANGED <<session, n_back, last_update, empty_run, hook>>

NextElig == CheckEligibility

SpecElig == Init /\ [][NextElig]_vars

-----------------------------------------------------------------------------
(* The webhook server.  Flask's app.run serves every request on a thread   *)
(* of its own, and neither webhook() nor process_message takes a lock.  A  *)
(* thread can lose the processor at any point; the model lets it do so     *)
(* where it waits for the oracle: at the interpret_state call of the scan  *)
(* and at the interpreter call of the phase handler.                       *)

Senders == {"s1", "s2"}

HookTexts == {T_Fifteen, T_Yes}

\* The oracle's replies: it finds no state in these messages; to the handler's
\* question it says "unknown" or "yes".
HookScanReplies == {UnknownReply}
HookPhaseReplies == {UnknownReply, YesReply}

\* The mutation of store_session in which every sender id names one object.
store_session_shared(ac, sender, sess) == [s \in DOMAIN ac |-> sess]

\* active_conversations[sender_id].process_message(...): the request changes
\* the session object of its sender, in place.
store_session(ac, sender, sess) == [ac EXCEPT ![sender] = sess]

\* process_message returns, or analyze_response answers, without an oracle
\* call: the session is closed or handed off, the message is blank or a command.
NoOracleCall(sess, text) ==
    \/ ~sess.conversation_active \/ sess.handled_by_agent
    \/ Len(text) = 0
    \/ _is_back_command(text) \/ _is_help_command(text)

\* A thread that has finished the event numbered seq.
DoneThread(sender, text, seq) ==
    [pc |-> "idle", sender |-> sender, text |-> text, phase |-> "", seq |-> seq]

\* webhook() on one messaging event, up to the first oracle call: a new sender
\* gets a session (and the welcome message; the text is not processed).
Receive(t) ==
    /\ inflight[t].pc = "idle"
    /\ n_recv < MaxRecv
    /\ n_recv' = n_recv + 1
    /\ \E sender \in Senders, text \in HookTexts :
          IF sender \notin DOMAIN active_conversations
          THEN /\ active_conversations' =
                     [s \in DOMAIN active_conversations \cup {sender} |->
                         IF s = sender THEN NewSession ELSE active_conversations[s]]
               /\ inflight' = [inflight EXCEPT ![t] = DoneThread(sender, text, n_recv + 1)]
          ELSE IF NoOracleCall(active_conversations[sender], text)
          THEN /\ active_conversations' =
                     store_session(active_conversations, sender,
                                   process_message(active_conversations[sender], text,
                                                   EmptyReply, EmptyReply))
               /\ inflight' = [inflight EXCEPT ![t] = DoneThread(sender, text, n_recv + 1)]
          ELSE /\ active_conversations' =
                     store_session(active_conversations, sender,
                         [active_conversations[sender] EXCEPT
                             !.cm.empty_response_count = 0,
                             !.cm.implied_answers =
                                 ScanKeywords(@, KeywordHits[text], NicuStay[text])])
               /\ inflight' = [inflight EXCEPT ![t] =
                                  [pc |-> "scan", sender |-> sender, text |-> text,
                                   phase |-> "", seq |-> n_recv + 1]]
    /\ UNCHANGED <<session, n_back, last_update, probe, empty_run>>

\* interpret_state returns to the scan; analyze_response reads current_phase
\* and enters the handler, which calls its interpreter.
ScanReply(t) ==
    /\ inflight[t].pc = "scan"
    /\ \E reply \in HookScanReplies :
          active_conversations' =
             store_session(active_conversations, inflight[t].sender,
                 [active_conversations[inflight[t].sender] EXCEPT
                     !.cm.implied_answers =
                         ScanRest(@, KeywordHits[inflight[t].text],
                                  interpret_state(inflight[t].text, reply))])
    /\ inflight' = [inflight EXCEPT ![t].pc = "phase",
                                    ![t].phase =
                                        active_conversations[inflight[t].sender].cm.current_phase]
    /\ UNCHANGED <<session, n_back, last_update, probe, empty_run, n_recv>>

\* The interpreter returns to the handler, which scores the answer and moves
\* the session on; process_message sends the response.
PhaseReply(t) ==
    /\ inflight[t].pc = "phase"
    /\ \E reply \in HookPhaseReplies :
          active_conversations' =
             store_session(active_conversations, inflight[t].sender,
                 Bind(active_conversations[inflight[t].sender],
                      LAMBDA sess :
                         Respond(sess, handle_phase(inflight[t].phase, sess.cm,
                                                    inflight[t].text, reply))))
    /\ inflight' = [inflight EXCEPT ![t].pc = "idle", ![t].phase = ""]
    /\ UNCHANGED <<session, n_back, last_update, probe, empty_run, n_recv>>

\* cleanup_inactive_sessions removes a session that has been idle for an hour
\* (so none that a request is working on).
Cleanup ==
    /\ \E sender \in DOMAIN active_conversations :
          /\ \A t \in Threads : inflight[t].pc = "idle" \/ inflight[t].sender # sender
          /\ active_conversations' =
                [s \in DOMAIN active_conversations \ {sender} |-> active_conversations[s]]
    /\ UNCHANGED <<session, n_back, last_update, probe, empty_run, inflight, n_recv>>

NextWebhook ==
    \/ \E t \in Threads : Receive(t) \/ ScanReply(t) \/ PhaseReply(t)
    \/ Cleanup

SpecWebhook == Init /\ [][NextWebhook]_vars

-----------------------------------------------------------------------------
(* The session when the family has, or has not, seen a lawyer already.     *)

FarewellTexts == {T_Fifteen, T_Yes, T_No, T_SawLawyer, T_NoLawyer}

\* An answer that may speak of a lawyer before the lawyer question is asked.
Tell ==
    /\ Accepting
    /\ \E text \in FarewellTexts, r \in OracleReplies(session.cm.current_phase) :
          Deliver(text, r[1], r[2])
    /\ UNCHANGED <<n_back, last_update, probe, empty_run, hook>>

NextFarewell == Tell \/ Back \/ Ignored

SpecFarewell == Init /\ [][NextFarewell]_vars

-----------------------------------------------------------------------------
(* The interview answered straight through: every message is an answer,    *)
(* the age answer is one the age handler accepts, no handler raises.       *)

\* The replies to the two oracle calls of one message, <<scan, handler>>: no
\* client, an oracle that answers, or an oracle whose every request fails.
InterviewReplies(p) == OracleReplies(p) \cup { <<ErrorReply, ErrorReply>> }

\* One answer of the sender; n_recv counts the messages of the interview.
Interview ==
    /\ Accepting
    /\ n_recv < MaxMsgs
    /\ \E text \in AnswerTexts, r \in InterviewReplies(session.cm.current_phase) :
          /\ session.cm.current_phase = "age" => ~IsNone(_analyze_age_response(text, r[2]))
          /\ Deliver(text, r[1], r[2])
    /\ n_recv' = n_recv + 1
    /\ UNCHANGED <<n_back, last_update, probe, empty_run, active_conversations, inflight>>

NextInterview == Interview

SpecInterview == Init /\ [][NextInterview]_vars

-----------------------------------------------------------------------------
(* NLUProcessor._query_claude over StandaloneClaudeClient.ask, called      *)
(* directly.                                                               *)

\* config.max_retries (the default of MAX_RETRIES).
max_retries == 3

\* What the HTTP request of one ask() call does: it is answered with status
\* 200 and a text, answered with another status, or raises (timeout, no
\* connection).
RequestOutcomes ==
    { [kind |-> "ok", reply |-> r] : r \in {EmptyReply, UnknownReply, YesReply,
                                            NameReply("Texas")} }
    \cup { [kind |-> "status", reply |-> EmptyReply],
           [kind |-> "exception", reply |-> EmptyReply] }

\* StandaloneClaudeClient.ask: the text it returns, and whether it raises.  It
\* catches every exception of the request, so it raises in no branch.
ask(outcome) ==
    CASE outcome.kind = "ok" -> [raised |-> FALSE, reply |-> outcome.reply]
      [] outcome.kind = "status" -> [raised |-> FALSE, reply |-> ErrorReply]
      [] OTHER -> [raised |-> FALSE,
                   reply |-> Reply("error", 0, NoneV, FALSE, "Error: <exception>")]

\* The retry loop of _query_claude from attempt number attempt on (1-based):
\* the reply it returns and the number of ask() calls made.
RECURSIVE QueryAttempts(_, _)
QueryAttempts(outcomes, attempt) ==
    IF attempt > max_retries THEN [reply |-> EmptyReply, attempts |-> max_retries]
    ELSE Bind(ask(outcomes[attempt]),
              LAMBDA r : IF r.raised THEN QueryAttempts(outcomes, attempt + 1)
                         ELSE [reply |-> r.reply, attempts |-> attempt])

\* client: whether self.client is set; outcomes[k]: what the request of the
\* k-th ask() call does, if it is made.
_query_claude(client, outcomes) ==
    IF ~client THEN [reply |-> EmptyReply, attempts |-> 0]
    ELSE QueryAttempts(outcomes, 1)

\* One call of _query_claude.
QueryClaude ==
    /\ probe.op = "none"
    /\ \E client \in BOOLEAN, outcomes \in [1..max_retries -> RequestOutcomes] :
          probe' = [op |-> "query", client |-> client, outcomes |-> outcomes,
                    out |-> _query_claude(client, outcomes)]
    /\ UNCHANGED <<session, n_back, last_update, empty_run, hook>>

NextQuery == QueryClaude

SpecQuery == Init /\ [][NextQuery]_vars

-----------------------------------------------------------------------------
(* Properties of the conversation.                                         *)

cm == session.cm

NoImplied(c) == \A k \in DOMAIN c.implied_answers : IsNone(c.implied_answers[k])

NicuYes(c) == c.phases["nicu"].complete /\ Truthy(c.phases["nicu"].value)

NicuNo(c) == c.phases["nicu"].complete /\ ~Truthy(c.phases["nicu"].value)

\* The phase after p in the linear order, `complete` after the last one.
NextPhase(p) ==
    IF p \notin PhaseSet \/ PhaseIndex(p) + 1 = Len(PhaseNames) THEN "complete"
    ELSE PhaseNames[PhaseIndex(p) + 2]

\* C1: whenever a non-command message advances the phase, the machine is
\* afterwards on a phase with no implied answer (or on complete, or the step
\* returned an eligibility failure); it is never left on a phase whose
\* implied answer is set.
C1_ConsumptionExhaustive ==
    [][ ( /\ session'.res = "ok"
          /\ session'.cm.current_phase # session.cm.current_phase
          /\ session'.cm.current_phase \in DOMAIN session'.cm.implied_answers )
        => IsNone(session'.cm.implied_answers[session'.cm.current_phase]) ]_vars

\* C2: at the pregnancy phase of a session with an eligible age, the message
\* "28 weeks, NICU for a month, cooling therapy, some delays" sets
\* weeks_pregnant = 28, completes nicu (true), nicu_duration (30), hie_therapy
\* (true) and milestones (true), applies their deltas and leaves
\* current_phase = lawyer.
C2_ScenarioReachesLawyer ==
    [][ ( /\ Accepting
          /\ n_back = 0
          /\ session.cm.current_phase = "pregnancy"
          /\ session' = process_message(session, T_Scenario, EmptyReply, EmptyReply) )
        => /\ session'.cm.case_data.weeks_pregnant = 28
           /\ session'.cm.phases["nicu"] = [complete |-> TRUE, value |-> BoolV(TRUE)]
           /\ session'.cm.phases["nicu_duration"] = [complete |-> TRUE, value |-> NumV(30)]
           /\ session'.cm.phases["hie_therapy"] = [complete |-> TRUE, value |-> BoolV(TRUE)]
           /\ session'.cm.phases["milestones"] = [complete |-> TRUE, value |-> BoolV(TRUE)]
           /\ session'.cm.points_log["hie"] = 1
           /\ session'.cm.points_log["delay"] = 1
           /\ session'.cm.current_phase = "lawyer" ]_vars

\* C3 as stated: without back commands and implied answers, and with the NICU
\* answer not no, every step either stays on its phase or moves to the next
\* phase of age, pregnancy, nicu, nicu_duration, hie_therapy, brain_scan,
\* milestones, lawyer, state, complete, whatever weeks_pregnant is.
C3_LinearOrder ==
    [][ ( /\ n_back' = 0
          /\ NoImplied(session'.cm)
          /\ ~NicuNo(session'.cm) )
        => \/ session'.cm.current_phase = session.cm.current_phase
           \/ session'.cm.current_phase = NextPhase(session.cm.current_phase) ]_vars

\* C3 amended: under the same conditions the order is linear except after
\* nicu_duration, which is followed by hie_therapy only when
\* weeks_pregnant >= 36 and by brain_scan (hie_therapy never visited) when
\* weeks_pregnant < 36 or unknown.
C3_LinearOrderFullTerm ==
    [][ ( /\ n_back' = 0
          /\ NoImplied(session'.cm)
          /\ ~NicuNo(session'.cm) )
        => \/ session'.cm.current_phase = session.cm.current_phase
           \/ /\ session.cm.current_phase # "nicu_duration"
              /\ session'.cm.current_phase = NextPhase(session.cm.current_phase)
           \/ /\ session.cm.current_phase = "nicu_duration"
              /\ session'.cm.case_data.weeks_pregnant >= 36
              /\ session'.cm.current_phase = "hie_therapy"
           \/ /\ session.cm.current_phase = "nicu_duration"
              /\ session'.cm.case_data.weeks_pregnant < 36
              /\ session'.cm.current_phase = "brain_scan" ]_vars

\* A pre-term NICU session without implied answers that went from
\* nicu_duration to brain_scan and on to the end without the HIE question.
C3_PretermSkipsHie ==
    /\ n_back = 0
    /\ NoImplied(cm)
    /\ NicuYes(cm)
    /\ cm.case_data.weeks_pregnant < 36
    /\ cm.phases["nicu_duration"].complete
    /\ cm.phases["brain_scan"].complete
    /\ ~cm.phases["hie_therapy"].complete
    /\ cm.current_phase = "complete"

\* C4: when the NICU answer is no, nicu_duration and brain_scan are never
\* marked complete and never contribute points in that session, whatever
\* implied answers are present.
C4_NoNicuSkipsDurationAndScan ==
    (n_back = 0 /\ NicuNo(cm))
    => /\ ~cm.phases["nicu_duration"].complete
       /\ ~cm.phases["brain_scan"].complete
       /\ cm.points_log["nicu_duration"] = 0
       /\ cm.points_log["scan"] = 0

\* C5: in every reachable state of a session case_data.ranking is the highest
\* tier among very high (80), high (65), normal (40), low (0) whose threshold
\* is <= case_data.points.
C5_RankingIsBucket ==
    cm.case_data.ranking =
        IF cm.case_data.points >= 80 THEN "very high"
        ELSE IF cm.case_data.points >= 65 THEN "high"
        ELSE IF cm.case_data.points >= 40 THEN "normal"
        ELSE "low"

\* A session whose points left the initial tier downwards.
C5_RankingLow == cm.case_data.ranking = "low" /\ cm.case_data.points < 40

\* C6: points start at 50 and are >= 0 in every reachable state; after each
\* update_points call the value is max(0, previous + delta).
C6_PointsFloor ==
    /\ cm.case_data.points >= 0
    /\ Calls(cm) = 0 => cm.case_data.points = 50
    /\ cm.case_data.points =
         IF last_update.before + last_update.delta < 0 THEN 0
         ELSE last_update.before + last_update.delta

\* A call whose delta would have taken the points below zero.
C6_FloorApplied ==
    /\ Calls(cm) > 0
    /\ last_update.before + last_update.delta < 0
    /\ cm.case_data.points = 0

\* C7: in a session without back commands each row of the delta table is
\* added to points at most once.
C7_EachRowOnce ==
    n_back = 0 => \A r \in Rows : cm.points_log[r] <= 1

\* C8: save_case_data is called exactly once, at the step in which
\* current_phase becomes complete, never before and never again for any later
\* message.
C8_SavedOnceAtComplete ==
    cm.saved = IF cm.current_phase = "complete" THEN 1 ELSE 0

\* A completed session that received a later message.
C8_CompleteThenMessage ==
    cm.current_phase = "complete" /\ cm.saved = 1 /\ session.res = "ignored"

\* The session was handed off on an ineligible verdict.
Ineligible == session.handled_by_agent /\ session.cm.current_phase # "complete"

\* C9: an ineligible verdict leaves current_phase where the failing step
\* found it and marks the session; from then on no message changes points,
\* ranking, recorded answers or current_phase.
C9_IneligibleIsTerminal ==
    [][ /\ session'.res = "ineligible"
           => /\ session'.handled_by_agent
              /\ session'.cm.current_phase = session.cm.current_phase
        /\ Ineligible
           => /\ session'.cm = session.cm
              /\ session'.handled_by_agent
              /\ session'.conversation_active = session.conversation_active ]_vars

\* An ineligible session that received a later message.
C9_IneligibleThenMessage ==
    Ineligible /\ session.res = "ignored" /\ cm.current_phase \in {"age", "state"}

\* C10: in every state with current_phase = complete (or a saved case) the age
\* is set and < 21, the state is set and not excluded, and if the state has
\* an SOL rule the age is below its cutoff.
C10_CompleteOnlyIfEligible ==
    (cm.current_phase = "complete" \/ cm.saved > 0)
    => /\ cm.case_data.age.kind = "num"
       /\ cm.case_data.age.n < 21 * 100
       /\ cm.case_data.state.kind = "str"
       /\ cm.case_data.state.s \notin excluded_states
       /\ cm.case_data.state.s \in DOMAIN stateSOL
          => cm.case_data.age.n < parse_sol_age(stateSOL[cm.case_data.state.s]).n * 100

\* A completed case whose state has an SOL rule.
C10_CompleteWithSolState ==
    /\ cm.current_phase = "complete"
    /\ cm.case_data.state.kind = "str"
    /\ cm.case_data.state.s \in DOMAIN stateSOL

\* C11: when a phase handler raises while processing a message, the generic
\* try-again error is returned and the phase state is as before the message:
\* the current phase's complete flag and value, the case record (points,
\* ranking) and current_phase are unchanged.  The age phase is left out: there
\* the error result is also the ordinary re-prompt.
C11_ExceptionLeavesPhaseUntouched ==
    [][ ( /\ Accepting
          /\ session.cm.current_phase \in PhaseSet \ {"age"}
          /\ session'.res = "error" )
        => /\ session'.cm.current_phase = session.cm.current_phase
           /\ session'.cm.phases[session.cm.current_phase]
                = session.cm.phases[session.cm.current_phase]
           /\ session'.cm.case_data = session.cm.case_data ]_vars

\* The interpreter of the question of phase p finds nothing in the text: no
\* age, no weeks, duration 0, no state.  The yes/no questions have no such
\* value.
NoMatch(p, text, reply) ==
    CASE p = "age" -> IsNone(interpret_age(text, reply))
      [] p = "pregnancy" -> IsNone(interpret_pregnancy_details(text, reply).weeks)
      [] p = "nicu_duration" -> interpret_duration(text, reply) = 0
      [] p = "state" -> IsNone(interpret_state(text, reply))
      [] OTHER -> FALSE

\* C12: at every phase an answer the interpreter cannot interpret gets a
\* re-prompt and does not advance the phase: current_phase, the phase's
\* complete flag and value, points and the case record are unchanged.
C12_NoMatchReprompts ==
    [][ \A text \in DialogTexts :
          ( /\ Accepting
            /\ NoMatch(session.cm.current_phase, text, EmptyReply)
            /\ session' = process_message(session, text, EmptyReply, EmptyReply) )
          => /\ session'.res = "error"
             /\ session'.cm.current_phase = session.cm.current_phase
             /\ session'.cm.phases[session.cm.current_phase]
                  = session.cm.phases[session.cm.current_phase]
             /\ session'.cm.case_data = session.cm.case_data ]_vars

\* C13: for each interpreter, when the oracle request fails (no client, or a
\* timeout, an HTTP error status or an exception inside ask) the result equals
\* the result of the pattern parser on the same text.  For interpret_yes_no
\* the comparison is made where the oracle is consulted at all.
C13_FailureFallsBack ==
    (probe.op = "interpret" /\ probe.reply.k \in {"empty", "error"})
    => /\ probe.age = probe.age_parsed
       /\ probe.pregnancy = probe.pregnancy_parsed
       /\ probe.asked => probe.yes_no = probe.yes_no_parsed
       /\ probe.duration = probe.duration_parsed
       /\ probe.state = probe.state_parsed

\* A reply that is not empty and is not an answer to the question: no number
\* for the age and the duration, no JSON for the pregnancy details, neither
\* "yes" nor "no" for a yes/no question, no state name for the state.
NotAnAnswer(question, reply) ==
    CASE question = "age" -> reply.k \notin {"empty", "num"}
      [] question = "pregnancy" -> reply.k \notin {"empty", "num", "json"}
      [] question = "yes_no" -> reply.k \notin {"empty", "yes", "no"}
      [] question = "duration" -> reply.k \notin {"empty", "num"}
      [] question = "state" ->
           /\ reply.k # "empty"
           /\ \A k \in 1..Len(state_abbreviations) : reply.s # state_abbreviations[k][2]

\* C14: for every interpreter and text, a reply that is non-empty but is not
\* an answer to the question gives exactly the interpretation an empty reply
\* or an unavailable oracle gives.
C14_UnparsableIsEmpty ==
    probe.op = "interpret"
    => /\ NotAnAnswer("age", probe.reply) => probe.age = probe.age_down
       /\ NotAnAnswer("pregnancy", probe.reply) => probe.pregnancy = probe.pregnancy_down
       /\ NotAnAnswer("yes_no", probe.reply) => probe.yes_no = probe.yes_no_down
       /\ NotAnAnswer("duration", probe.reply) => probe.duration = probe.duration_down
       /\ NotAnAnswer("state", probe.reply) => probe.state = probe.state_down

\* C15: an empty or whitespace-only message, at any phase, increments
\* empty_response_count by exactly 1 and changes nothing else of the
\* conversation: current_phase, every phase's value and complete flag,
\* case_data and implied_answers are unchanged and no transition is returned.
C15_BlankOnlyCounts ==
    [][ empty_run' = empty_run + 1
        => /\ session'.cm = [session.cm EXCEPT !.empty_response_count = @ + 1]
           /\ session'.res = "empty"
           /\ session'.conversation_active = session.conversation_active
           /\ session'.handled_by_agent = session.handled_by_agent ]_vars

\* Two blank messages in a row in the middle of a session that holds implied
\* answers.
C15_BlankMidSession ==
    /\ session.res = "empty"
    /\ empty_run = 2
    /\ cm.empty_response_count = 2
    /\ cm.current_phase = "brain_scan"
    /\ ~NoImplied(cm)

\* C16: get_next_question returns the continue/quit control prompt exactly
\* when the last 3 or more messages were all blank; after any non-blank
\* message (an answer, back or help) the counter is 0 and the question of the
\* current phase (or the closing message) is returned.
C16_ControlPromptAfterThreeBlanks ==
    /\ cm.empty_response_count = empty_run
    /\ get_next_question(cm).is_control <=> empty_run >= 3
    /\ empty_run < 3
       => get_next_question(cm).question
            = (IF cm.current_phase = "complete" THEN "completion" ELSE cm.current_phase)

\* The control prompt after more than three blank messages in a row, in the
\* middle of a session.
C16_ControlPromptShown ==
    /\ empty_run > 3
    /\ get_next_question(cm) = [question |-> "control", is_control |-> TRUE]
    /\ cm.current_phase = "nicu"

\* The phase before p in the list of phases.
PrevPhase(p) == CHOOSE q \in PhaseSet : NextPhase(q) = p

\* C17: a back command at any phase other than the first moves current_phase
\* one phase backward and sets that phase's complete flag to false; points,
\* ranking, recorded values, age/state, implied_answers and every other
\* complete flag are unchanged (the message is not scanned).
C17_BackReopensPrevious ==
    [][ ( /\ n_back' = n_back + 1
          /\ session.cm.current_phase # "age" )
        => /\ session'.res = "back"
           /\ session'.cm =
                [session.cm EXCEPT
                    !.current_phase = PrevPhase(session.cm.current_phase),
                    !.phases[PrevPhase(session.cm.current_phase)].complete = FALSE,
                    !.empty_response_count = 0] ]_vars

\* A back command that reopened the NICU question: its answer and the points
\* are still there.
C17_BackToNicu ==
    /\ session.res = "back"
    /\ cm.current_phase = "nicu"
    /\ ~cm.phases["nicu"].complete
    /\ cm.phases["nicu"].value = BoolV(TRUE)
    /\ cm.points_log["nicu"] = 1

\* C18: a back command at the first phase (age) is a no-op: current_phase
\* stays age, no complete flag, value, points or implied answer changes, and
\* an error result (not a back result) is returned.
C18_BackAtAgeIsNoOp ==
    [][ ( /\ n_back' = n_back + 1
          /\ session.cm.current_phase = "age" )
        => /\ session'.res = "error"
           /\ session'.cm = [session.cm EXCEPT !.empty_response_count = 0] ]_vars

\* A back command at the age phase of a session that already holds implied
\* answers.
C18_BackAtAgeRefused ==
    /\ n_back = 1
    /\ session.res = "error"
    /\ cm.current_phase = "age"
    /\ ~NoImplied(cm)

\* C19: a help command at any phase returns the help text of the current
\* phase and causes no state change: current_phase, all phase values and
\* complete flags, case_data and implied_answers are unchanged; only
\* empty_response_count is reset to 0.
C19_HelpChangesNothing ==
    [][ ( /\ Accepting
          /\ session' = process_message(session, T_Help, EmptyReply, EmptyReply) )
        => /\ session'.res = "help"
           /\ _handle_help_request(session.cm).help = session.cm.current_phase
           /\ session'.cm = [session.cm EXCEPT !.empty_response_count = 0]
           /\ session'.conversation_active = session.conversation_active
           /\ session'.handled_by_agent = session.handled_by_agent ]_vars

\* A help command at the HIE question of a session with points and an implied
\* answer.
C19_HelpAtHieTherapy ==
    /\ session.res = "help"
    /\ cm.current_phase = "hie_therapy"
    /\ ~cm.phases["hie_therapy"].complete
    /\ ~NoImplied(cm)
    /\ cm.case_data.points # 50

\* C20: the eligibility check returns ineligible, with the apology for
\* excluded states as the reason, for every state on the excluded-state list
\* and every age, including an absent age (None).
C20_ExcludedStateIneligible ==
    (probe.op = "eligibility" /\ probe.state.s \in excluded_states)
    => /\ ~probe.eligible
       /\ probe.reason = "excluded_state"

\* The state of a probed eligibility call is on the excluded-state list.
ProbeExcluded == probe.state.kind = "str" /\ probe.state.s \in excluded_states

\* The state of a probed eligibility call has an SOL rule string.
ProbeHasRule ==
    /\ probe.state.kind = "str"
    /\ probe.state.s \in DOMAIN stateSOL
    /\ stateSOL[probe.state.s] # <<>>

\* C21: for every state value that is not excluded (absent, with or without
\* an SOL rule) an age of 21 or more is ineligible, and the ceiling is
\* applied before the state's rule: the reason is the age reason even where
\* the state's cutoff is above the age; below 21 with no state the verdict is
\* eligible.
C21_CeilingBeforeSol ==
    (probe.op = "eligibility" /\ probe.age.kind = "num" /\ ~ProbeExcluded)
    => /\ probe.age.n >= 21 * 100 => (~probe.eligible /\ probe.reason = "age")
       /\ (probe.age.n < 21 * 100 /\ IsNone(probe.state)) => probe.eligible

\* Age 22 in a state whose rule allows up to 25 years.
C21_CeilingUnderLaterCutoff ==
    /\ probe.op = "eligibility"
    /\ probe.age = NumV(2200)
    /\ probe.state = StrV("Nevada")
    /\ ~probe.eligible

\* The cutoff the rule strings of the table have by the stated search order:
\* the "<N>th birthday" number, else the "<N> years" number, else the first
\* integer ("8 years or 18th birthday" has cutoff 18).
C22_Cutoff ==
    [st \in {"California", "Texas", "Florida", "Vermont", "Nevada"} |->
        CASE st = "California" -> 18 [] st = "Texas" -> 14 [] st = "Florida" -> 18
          [] st = "Vermont" -> 19 [] OTHER -> 25]

\* C22: for a state that is not excluded and an age below 21, a state with a
\* rule string is eligible exactly when the age is below the rule's cutoff
\* (birthday number, else years number, else first integer), and a state
\* without a rule is eligible.
C22_EligibleIffBelowCutoff ==
    (probe.op = "eligibility" /\ probe.age.kind = "num" /\ probe.age.n < 21 * 100
        /\ ~IsNone(probe.state) /\ ~ProbeExcluded)
    => IF ProbeHasRule
       THEN probe.eligible <=> probe.age.n < C22_Cutoff[probe.state.s] * 100
       ELSE probe.eligible

\* Age 15 under a rule with "8 years" before "18th birthday": eligible.
C22_BirthdayBeatsYears ==
    /\ probe.op = "eligibility"
    /\ probe.age = NumV(1500)
    /\ probe.state = StrV("Florida")
    /\ probe.eligible

\* C23: case_data.age is unset or a whole number of tenths in [0, 25], and
\* the age answer is judged on that stored number: the age step hands the
\* session off exactly when the stored age is 21 or more.
C23_AgeStoredNormalized ==
    /\ IsNone(cm.case_data.age)
       \/ /\ cm.case_data.age.kind = "num"
          /\ cm.case_data.age.n \in 0..2500
          /\ cm.case_data.age.n % 10 = 0
    /\ cm.current_phase = "age"
       => (Ineligible <=> (~IsNone(cm.case_data.age) /\ cm.case_data.age.n >= 21 * 100))
    /\ cm.current_phase # "age" => cm.case_data.age.n < 21 * 100

\* An answer read as 20.96 was stored as 21.0 and refused.
C23_RoundedUpToCeiling ==
    /\ cm.case_data.age = NumV(2100)
    /\ Ineligible
    /\ cm.current_phase = "age"

\* C30: the fallback age interpreter returns no-match or an age in [0, 25].
C30_FallbackAgeInRange ==
    probe.op = "interpret"
    => \/ IsNone(probe.age_parsed)
       \/ (0 <= probe.age_parsed.n /\ probe.age_parsed.n <= 25 * 100)

ImpliedKeys == DOMAIN NewManager.implied_answers

\* The scan detects the topic of an implied-answer key in a message: a
\* positive keyword of the topic, the NICU-stay expression, a state named in
\* the message or by the oracle, or the compound heuristic's own keywords.
Detected(k, text, reply) ==
    LET compound == /\ Has(text, <<"28", "weeks">>) /\ Has(text, <<"nicu">>)
                    /\ Has(text, <<"cooling">>)
    IN CASE k = "nicu" -> HasAny(text, nicu_indicators)
         [] k = "nicu_duration" ->
                NicuStay[text].found \/ (compound /\ Has(text, <<"month">>))
         [] k = "hie_therapy" -> HasAny(text, cooling_indicators)
         [] k = "brain_scan" -> HasAny(text, scan_indicators)
         [] k = "milestones" -> HasAny(text, delay_indicators)
         [] k = "lawyer" -> HasAny(text, lawyer_indicators)
         [] OTHER -> reply.k = "name" \/ Truthy(_parse_state_patterns(text))

\* C24: an implied answer that is set is never unset again, and a message in
\* which the key's topic is not detected leaves the key's value as it was.
C24_ImpliedAnswersSticky ==
    [][ \A k \in ImpliedKeys :
          /\ ~IsNone(session.cm.implied_answers[k])
                => ~IsNone(session'.cm.implied_answers[k])
          /\ \A text \in DialogTexts, r \in DialogReplies(session.cm.current_phase) :
                ( /\ session' = process_message(session, text, r[1], r[2])
                  /\ ~Detected(k, text, r[1]) )
                => session'.cm.implied_answers[k] = session.cm.implied_answers[k] ]_vars

\* C25: scanning a message twice in a row gives the implied_answers of
\* scanning it once: the same map when the oracle answers the same both
\* times, and in any case the map of one of the two single scans.
C25_ScanIdempotent ==
    probe.op = "scan"
    => /\ probe.r1 = probe.r2 => probe.twice = probe.once
       /\ probe.twice \in {probe.once, probe.once2}

\* The compound message scanned twice over answers implied with a no.
C25_CompoundScannedTwice ==
    /\ probe.op = "scan"
    /\ probe.text = T_Scenario
    /\ probe.prior["nicu"] = BoolV(FALSE)
    /\ probe.r1 = probe.r2
    /\ probe.twice["nicu"] = BoolV(TRUE)
    /\ probe.twice["nicu_duration"] = NumV(30)

\* The five yes/no topics of the scan: key, positive list, negative list.
ScanTopics ==
    { <<"nicu", nicu_indicators, nicu_negative>>,
      <<"hie_therapy", cooling_indicators, cooling_negative>>,
      <<"brain_scan", scan_indicators, scan_negative>>,
      <<"milestones", delay_indicators, normal_indicators>>,
      <<"lawyer", lawyer_indicators, lawyer_negative>> }

\* C26: outside the compound heuristic, for each yes/no topic: a positive
\* keyword without a negative phrase implies true, with a negative phrase
\* false, and without a positive keyword the value stays as it was.
C26_NegativeForcesFalse ==
    ( /\ probe.op = "scan"
      /\ ~( /\ Has(probe.text, <<"28", "weeks">>) /\ Has(probe.text, <<"nicu">>)
            /\ Has(probe.text, <<"cooling">>) ) )
    => \A t \in ScanTopics :
          LET pos == HasAny(probe.text, t[2])
              neg == HasAny(probe.text, t[3])
          IN /\ (pos /\ ~neg) => probe.once[t[1]] = BoolV(TRUE)
             /\ (pos /\ neg) => probe.once[t[1]] = BoolV(FALSE)
             /\ ~pos => probe.once[t[1]] = probe.prior[t[1]]

\* "went home" after a NICU stay was implied: the yes stays.
C26_NegativeAloneKeepsYes ==
    /\ probe.op = "scan"
    /\ probe.text = T_WentHome
    /\ probe.prior["nicu"] = BoolV(TRUE)
    /\ probe.once["nicu"] = BoolV(TRUE)

\* C27: a step taken for one sender leaves every other sender's session
\* (case_data, phases, implied_answers, current_phase, empty_response_count)
\* as it was, in every interleaving of the request threads.
C27_SessionsIndependent ==
    [][ \A s \in DOMAIN active_conversations, t \in Threads :
          (inflight'[t] # inflight[t] /\ inflight'[t].sender # s)
          => /\ s \in DOMAIN active_conversations'
             /\ active_conversations'[s] = active_conversations[s] ]_vars

\* A message of s2 was processed to the end while a message of s1 was waiting
\* for the oracle, and both sessions have moved on from their first state.
C27_InterleavedSenders ==
    /\ Senders \subseteq DOMAIN active_conversations
    /\ \E t \in Threads, u \in Threads :
          /\ inflight[t].pc = "phase" /\ inflight[t].sender = "s1"
          /\ inflight[u].pc = "idle" /\ inflight[u].sender = "s2"
          /\ inflight[u].seq > inflight[t].seq
    /\ active_conversations["s2"].cm.current_phase = "pregnancy"

\* C28: the messages of one sender are processed one after another: no two
\* request threads are inside process_message for the same session.
C28_OneMessageAtATime ==
    \A t \in Threads, u \in Threads :
       (t # u /\ inflight[t].pc # "idle" /\ inflight[u].pc # "idle")
       => inflight[t].sender # inflight[u].sender

\* The verdict that age and state alone give: below 21, not an excluded
\* state, and below the cutoff of the state's rule string if it has one.
C29_Verdict(age, state) ==
    /\ age.n < 21 * 100
    /\ state.s \notin excluded_states
    /\ state.s \in DOMAIN C22_Cutoff => age.n < C22_Cutoff[state.s] * 100

\* C29: once the state is recorded the session is complete exactly when age
\* and state alone allow it, whatever its answers, points and ranking are,
\* and it is handed off as ineligible otherwise.
C29_VerdictIgnoresScore ==
    ~IsNone(cm.case_data.state)
    => /\ cm.current_phase = "complete"
             <=> C29_Verdict(cm.case_data.age, cm.case_data.state)
       /\ cm.current_phase # "complete" => Ineligible

\* A completed case with the lowest ranking.
C29_CompleteWithLowRanking ==
    /\ cm.current_phase = "complete"
    /\ cm.case_data.ranking = "low"
    /\ cm.case_data.points < 40
    /\ C29_Verdict(cm.case_data.age, cm.case_data.state)

\* The position of a phase in the order of the questions, `complete` last.
PhasePos(p) == IF p \in PhaseSet THEN PhaseIndex(p) ELSE Len(PhaseNames)

\* C31: in a session without back commands whose weeks_pregnant is 36 or
\* more, hie_therapy is marked complete before current_phase reaches
\* milestones (or any later phase), whatever the NICU answer and the implied
\* answers are.
C31_FullTermHieBeforeMilestones ==
    ( /\ n_back = 0
      /\ cm.case_data.weeks_pregnant >= 36
      /\ PhasePos(cm.current_phase) >= PhasePos("milestones") )
    => cm.phases["hie_therapy"].complete

\* C32: after one scan of a message containing "28 weeks", "nicu" and
\* "cooling", implied nicu and hie_therapy are true whatever the negative
\* phrases of the message set, implied nicu_duration is 30 if the message
\* contains "month" whatever length the NICU-stay expression found, and
\* implied milestones is true if the message contains "delay".
C32_CompoundOverrides ==
    ( /\ probe.op = "scan"
      /\ Has(probe.text, <<"28", "weeks">>)
      /\ Has(probe.text, <<"nicu">>)
      /\ Has(probe.text, <<"cooling">>) )
    => /\ probe.once["nicu"] = BoolV(TRUE)
       /\ probe.once["hie_therapy"] = BoolV(TRUE)
       /\ Has(probe.text, <<"month">>) => probe.once["nicu_duration"] = NumV(30)
       /\ Has(probe.text, <<"delay">>) => probe.once["milestones"] = BoolV(TRUE)

\* The compound message in which the per-topic extraction found a no for the
\* NICU, the cooling and the delays, and a NICU stay of 14 days.
C32_CompoundOverDenials ==
    /\ probe.op = "scan"
    /\ probe.text = T_CompoundStay
    /\ HasAny(probe.text, nicu_negative)
    /\ HasAny(probe.text, cooling_negative)
    /\ HasAny(probe.text, normal_indicators)
    /\ ScanKeywords(probe.prior, KeywordHits[probe.text], NicuStay[probe.text])
         = [probe.prior EXCEPT !["nicu"] = BoolV(FALSE), !["nicu_duration"] = NumV(14),
                               !["hie_therapy"] = BoolV(FALSE),
                               !["milestones"] = BoolV(FALSE)]
    /\ probe.once["nicu"] = BoolV(TRUE)
    /\ probe.once["nicu_duration"] = NumV(30)
    /\ probe.once["hie_therapy"] = BoolV(TRUE)
    /\ probe.once["milestones"] = BoolV(TRUE)

\* C33: a back command that is carried out never lands on a phase that was
\* skipped and never answered in the session: the phase it reopens holds an
\* answer.
C33_BackLandsOnAnswered ==
    [][ ( /\ Accepting
          /\ session' = process_message(session, T_Back, EmptyReply, EmptyReply)
          /\ session'.res = "back" )
        => ~IsNone(session'.cm.phases[session'.cm.current_phase].value) ]_vars

\* The delta apply_brain_scan_points adds for a stored brain-scan answer.
ScanDelta(v) == IF v.b THEN 20 ELSE -10

\* C34: when brain_scan, answered earlier, was reopened by a back command and
\* is answered again, the points afterwards are those of the new answer in
\* place of the earlier one (the earlier delta is not counted in addition);
\* taken where neither value involves the floor at 0.
C34_ReanswerReplaces ==
    [][ ( /\ session.res = "back"
          /\ session.cm.current_phase = "brain_scan"
          /\ ~IsNone(session.cm.phases["brain_scan"].value)
          /\ session.cm.case_data.points >= 30
          /\ session'.res = "ok"
          /\ session'.cm.current_phase = "milestones" )
        => session'.cm.case_data.points =
              session.cm.case_data.points
              - ScanDelta(session.cm.phases["brain_scan"].value)
              + ScanDelta(session'.cm.phases["brain_scan"].value) ]_vars

\* C35: in every state of a session, for each of the nine phases p,
\* case_data['phases_completed'][p] equals phases[p]['complete'].
C35_CompletionRecordsAgree ==
    \A p \in PhaseSet : cm.case_data.phases_completed[p] = cm.phases[p].complete

\* C36: a message that is not a back command never takes current_phase to an
\* earlier position of the order age, pregnancy, nicu, nicu_duration,
\* hie_therapy, brain_scan, milestones, lawyer, state, complete; once
\* current_phase is complete every later message leaves it complete, and a
\* back command handed to analyze_response at complete returns an error and
\* leaves it complete.
C36_ForwardOnly ==
    [][ /\ n_back' = n_back
           => PhasePos(session'.cm.current_phase) >= PhasePos(session.cm.current_phase)
        /\ session.cm.current_phase = "complete"
           => /\ session'.cm.current_phase = "complete"
              /\ LET out == analyze_response(session.cm, T_Back, EmptyReply, EmptyReply)
                 IN out.res = "error" /\ out.c.current_phase = "complete" ]_vars

\* A session without back commands that jumped over nicu_duration and
\* brain_scan, reached complete and received a later message.
C36_CompleteAfterJump ==
    /\ n_back = 0
    /\ cm.current_phase = "complete"
    /\ ~cm.phases["nicu_duration"].complete
    /\ ~cm.phases["brain_scan"].complete
    /\ session.res = "ignored"

\* The lawyer question holds an affirmative answer.
LawyerYes(c) == c.phases["lawyer"].complete /\ Truthy(c.phases["lawyer"].value)

\* C37: once the lawyer answer of a session is affirmative (given at the
\* lawyer phase or consumed from an implied answer) the conversation is
\* closed with the farewell, current_phase is neither state nor complete,
\* save_case_data was not called, and every later message leaves the
\* manager (points, phases, everything) as it was.
C37_LawyerYesEnds ==
    [][ LawyerYes(session'.cm)
        => /\ ~session'.conversation_active
           /\ session'.res \in {"end_chat", "ignored"}
           /\ session'.cm.current_phase \notin {"state", "complete"}
           /\ session'.cm.saved = 0
           /\ LawyerYes(session.cm)
              => /\ session'.cm = session.cm
                 /\ session'.res = "ignored" ]_vars

\* A session closed by a lawyer answer consumed from an implied answer (the
\* milestones handler consumed it, the lawyer question was never asked) that
\* received a later message.
C37_ImpliedFarewellThenMessage ==
    /\ LawyerYes(cm)
    /\ cm.current_phase = "milestones"
    /\ cm.implied_answers["lawyer"] = BoolV(TRUE)
    /\ cm.points_log["lawyer"] = 1
    /\ session.res = "ignored"

\* The full state names of the abbreviation table.
StateNames == {state_abbreviations[k][2] : k \in 1..Len(state_abbreviations)}

\* C38: while every oracle request fails, implied_answers['state'] is unset
\* or a state name of the table (found by the pattern parser), and
\* case_data.state is unset, a state name of the table, or the user's own
\* answer at the state phase.
C38_StateOnlyFromParser ==
    /\ ~IsNone(cm.implied_answers["state"]) => cm.implied_answers["state"].s \in StateNames
    /\ ~IsNone(cm.case_data.state)
       => cm.case_data.state.s \in StateNames \cup {Stored(<<>>).s}

\* The session takes no further answer: it is complete, was found
\* ineligible, or ended with the lawyer farewell.
Ended(sess) ==
    /\ ~(sess.conversation_active /\ ~sess.handled_by_agent)
    /\ \/ sess.cm.current_phase = "complete"
       \/ sess.res \in {"ineligible", "end_chat"}

\* C39: when every message is an answer (not empty, not back, not help), the
\* age answer is accepted and no handler raises, every answer at a phase
\* other than age moves current_phase strictly forward or ends the session,
\* the age answer does the same, and the session has ended at the latest
\* with the ninth message.
C39_InterviewTerminates ==
    [][ /\ \/ PhasePos(session'.cm.current_phase) > PhasePos(session.cm.current_phase)
           \/ Ended(session')
        /\ n_recv' <= 9
        /\ n_recv' = 9 => Ended(session') ]_vars

\* An interview that needed all nine answers: full term, a NICU stay, no
\* question answered ahead of time.
C39_NineAnswers ==
    /\ n_recv = 9
    /\ cm.current_phase = "complete"
    /\ \A p \in PhaseSet : cm.phases[p].complete
    /\ Ended(session)

\* C40: when every request to the oracle fails, _query_claude makes at most
\* max_retries attempts and returns the empty string, never an error text;
\* without a client it returns the empty string without any attempt.
C40_QueryFailsClosed ==
    probe.op = "query"
    => /\ ~probe.client => (probe.out.reply = EmptyReply /\ probe.out.attempts = 0)
       /\ ( /\ probe.client
            /\ \A k \in 1..max_retries : probe.outcomes[k].kind # "ok" )
          => /\ probe.out.attempts <= max_retries
             /\ probe.out.reply = EmptyReply

====
